---------------------------- MODULE Spec2Model ----------------------------
(***************************************************************************)
(* A model of the rendering core of ratatui-android: the cell-buffer       *)
(* backend (backend.rs), the glyph cache and the software rasterizer       *)
(* (rasterizer.rs), the direct on-screen keyboard                          *)
(* (widgets/direct_keyboard.rs), the input conversions (input.rs) and the  *)
(* main loop of the runtime template (runtime/).                           *)
(*                                                                         *)
(* The module holds several specifications over one set of variables; each *)
(* drives one component and leaves the variables of the others at their    *)
(* initial values:                                                         *)
(*   SpecCache    the glyph cache behind render_char_cosmic                *)
(*   SpecBackend  AndroidBackend: new / resize / draw / clear / get_cell   *)
(*   SpecKeyboard DirectKeyboard: render and handle_touch                  *)
(*   SpecSurface  Rasterizer::render_to_surface_with_offset and            *)
(*                DirectKeyboard::render on a pixel surface                *)
(*   SpecPure     composite and key_to_crossterm_event on sampled inputs   *)
(*   SpecTouch    to_terminal_coords on the pixels of a rendered frame     *)
(*   SpecInput    map_android_event on sampled touches                     *)
(*   SpecWidget   KeyboardWidget: render, handle_touch and clear_pressed   *)
(*   SpecSoft     the soft-keyboard atomics under two threads              *)
(*   SpecRuntime  the main loop: touches, lifecycle events and frames      *)
(*   SpecLocks    threads taking CHAR_CACHE, FONT_SYSTEM and SWASH_CACHE   *)
(***************************************************************************)
EXTENDS Integers, Sequences, FiniteSets, TLC

VARIABLES
    \* ---- glyph cache (rasterizer.rs, CHAR_CACHE) ----
    cache,      \* the LRU list of CHAR_CACHE, most recently used first
    history,    \* ghost: the keys touched by a put or a get-hit, oldest first
    evicted,    \* ghost: the key the last cache operation evicted, or NoKey
    cacheRet,   \* what the last cache operation returned
    poisoned,   \* the global locks that are poisoned (a thread panicked holding them)
    \* ---- AndroidBackend (backend.rs) ----
    width,      \* AndroidBackend.width
    height,     \* AndroidBackend.height
    cursor,     \* <<cursor_x, cursor_y>>
    area,       \* buffer.area: the Rect of the ratatui Buffer, [width, height]
    content,    \* buffer.content: the cells, row-major
    bcall,      \* the backend call in progress (NoCall between calls)
    \* ---- DirectKeyboard (widgets/direct_keyboard.rs) ----
    kbd,        \* the DirectKeyboardState
    kcall,      \* the keyboard call in progress: a render or a handle_touch
    \* ---- Rasterizer (rasterizer.rs) ----
    rasterizer, \* the Rasterizer: font_size, font_width, font_height
    frame,      \* the render_to_surface_with_offset call in progress
    \* ---- pure functions (rasterizer.rs, input.rs) ----
    pcall,      \* the last application of a pure function: its arguments and result
    \* ---- the runtime (runtime/mod.rs, lifecycle.rs, window.rs, rendering.rs) ----
    now,        \* the clock, in milliseconds
    app,        \* AppState: the window of the WindowManager, needs_draw, should_quit
    os,         \* the native window Android currently provides
    rcall,      \* the last step of the main loop or call on the keyboard state
    \* ---- the three global mutexes (rasterizer.rs lines 39-67) ----
    mutex,      \* the thread that holds each mutex, or NoThread
    thr,        \* each thread: the function it runs, where it is, the guards it holds
    \* ---- soft keyboard tracking (runtime/keyboard.rs) ----
    kv,         \* the four atomics of keyboard.rs
    sg,         \* ghost: the order of the height stores and of the raises of the flag
    sk,         \* the main thread and the thread spawned for show_soft_keyboard
    sw,         \* the native window height, WindowManager.height_px, visible_height_px
    \* ---- KeyboardWidget (widgets/keyboard.rs) ----
    kw,         \* the KeyboardState of the widget
    kwcall      \* the last call on the widget: a render, a handle_touch, a clear_pressed

cacheVars   == <<cache, history, evicted, cacheRet, poisoned>>
backendVars == <<width, height, cursor, area, content, bcall>>
kbdVars     == <<kbd, kcall>>
rasterVars  == <<rasterizer, frame>>
pureVars == <<pcall>>
loopVars == <<now, app, os, rcall>>
lockVars == <<mutex, thr>>
softVars == <<kv, sg, sk, sw>>
widgetVars == <<kw, kwcall>>
runtimeVars == <<pureVars, loopVars, lockVars, softVars, widgetVars>>
vars        == <<cacheVars, backendVars, kbdVars, rasterVars, runtimeVars>>

(***************************************************************************)
(* Bounds of the model.                                                    *)
(***************************************************************************)
\* Capacity of the modelled cache (the program's is 1000, CacheCapacity).
CacheCap == 2
\* Number of cache operations whose order the ghost history records.
MaxOps == 4
\* Largest backend width and height.
MaxDim == 2
MaxClock == 2
MaxWindows == 2
NumThreads == 2
MaxWarm == 2
MaxSoftEvents == 3
\* Width in bits of the modelled machine word (usize); Rust's is 32 or 64.
WordBits == 16

Min(a, b) == IF a < b THEN a ELSE b
Max(a, b) == IF a > b THEN a ELSE b
Range(s)  == {s[i] : i \in DOMAIN s}

\* ceil(n / d) for naturals
CeilDiv(n, d) == (n + d - 1) \div d

(***************************************************************************)
(* Characters are code points.                                             *)
(***************************************************************************)
SPACE  == 32      \* ' '
CH_a   == 97      \* 'a'
CH_1   == 49      \* '1'
CH_CJK == 20013   \* U+4E2D, a CJK ideograph
CH_NICHI == 26085 \* U+65E5, a CJK ideograph

Chars == {CH_a, CH_1, CH_CJK}

\* rasterizer.rs is_wide_char: the Unicode ranges that take two cells.
is_wide_char(c) ==
    \/ c >= 4352   /\ c <= 4447      \* 0x1100..=0x115F
    \/ c >= 11904  /\ c <= 40959     \* 0x2E80..=0x9FFF
    \/ c >= 44032  /\ c <= 55203     \* 0xAC00..=0xD7A3
    \/ c >= 63744  /\ c <= 64255     \* 0xF900..=0xFAFF
    \/ c >= 65040  /\ c <= 65055     \* 0xFE10..=0xFE1F
    \/ c >= 65280  /\ c <= 65519     \* 0xFF00..=0xFFEF
    \/ c >= 127744 /\ c <= 129535    \* 0x1F300..=0x1F9FF
    \/ c >= 129536 /\ c <= 129791    \* 0x1FA00..=0x1FAFF
    \/ c >= 9728   /\ c <= 9983      \* 0x2600..=0x26FF
    \/ c >= 9984   /\ c <= 10175     \* 0x2700..=0x27BF
    \/ c >= 127462 /\ c <= 127487    \* 0x1F1E0..=0x1F1FF

(***************************************************************************)
(* Colors.  color_to_rgba maps a ratatui Color to RGBA bytes; Reset is     *)
(* white as a foreground and black as a background.                        *)
(***************************************************************************)
Colors == {"Reset", "Red"}

color_to_rgba(color) ==
    CASE color = "Reset" -> <<255, 255, 255, 255>>
      [] color = "Black" -> <<0, 0, 0, 255>>
      [] color = "Red"   -> <<255, 0, 0, 255>>
      [] color = "White" -> <<255, 255, 255, 255>>
      [] OTHER           -> <<255, 255, 255, 255>>

color_to_rgba_bg(color) ==
    IF color = "Reset" THEN <<0, 0, 0, 255>> ELSE color_to_rgba(color)

(***************************************************************************)
(* Font sizes.  Rasterizer::new(size) keeps                                *)
(*   font_width  = ceil(size * 0.6),  font_height = ceil(size).            *)
(* A size is an f32; here it is a whole number of tenths of a pixel, so    *)
(* 60 is 6.0 and 69 is 6.9.  The sizes used are away from the values where *)
(* the f32 product size * 0.6 rounds across a whole number.                *)
(***************************************************************************)
FontSizes == {20, 60}

\* The sizes the glyph cache is asked for: 6.0 and 6.9 truncate to the same
\* integer and give bitmaps of different dimensions.
RequestSizes == {60, 69}

font_width(size)  == CeilDiv(size * 6, 100)
font_height(size) == CeilDiv(size, 10)

(***************************************************************************)
(*                           THE GLYPH CACHE                               *)
(*                                                                         *)
(* CHAR_CACHE is an lru::LruCache behind a Mutex.  The list `cache` holds  *)
(* its entries, most recently used first: get moves a hit to the front,    *)
(* put inserts (or replaces) at the front and, when the capacity is        *)
(* exceeded, drops the entry at the back.                                  *)
(***************************************************************************)
NoKey   == <<>>
NoGlyph == [none |-> TRUE]

\* render_char_cosmic, the cache key: (c as u32, size as u32, color_u32).
\* color_u32 packs the color as A<<24 | R<<16 | G<<8 | B; the 32-bit word is
\* kept as its two 16-bit halves, the upper one first.  size as u32
\* truncates the f32 towards zero.
color_u32(rgba) == <<rgba[4] * 256 + rgba[1], rgba[2] * 256 + rgba[3]>>

\* A key that rounds the size up, as the bitmap dimensions do.
cache_key_ceil(c, size, rgba) == <<c, CeilDiv(size, 10), color_u32(rgba)>>

cache_key(c, size, rgba) == <<c, size \div 10, color_u32(rgba)>>

\* The bitmap render_char_cosmic shapes for c at size: the dimensions of
\* lines 229-243 and the coverage (pixels of non-zero alpha) the font gives.
ShapedBitmap(c, size, rgba, coverage) ==
    LET is_wide         == is_wide_char(c)
        base_cell_width == font_width(size)
        cell_width      == IF is_wide THEN base_cell_width * 2 ELSE base_cell_width
        cell_height     == font_height(size)
    IN  [none    |-> FALSE,
         width   |-> Max(cell_width, 4),
         height  |-> Max(cell_height, 4),
         is_wide |-> is_wide,
         color   |-> rgba,
         cover   |-> coverage]

CacheKeys(l) == {l[i].key : i \in DOMAIN l}
CacheIndex(l, k) == CHOOSE i \in DOMAIN l : l[i].key = k
Without(l, k) == SelectSeq(l, LAMBDA e : e.key # k)

\* LruCache::get without promotion: what a cache that forgets to move a hit
\* to the front would do.
LruGetNoPromote(l, k) ==
    IF k \in CacheKeys(l)
    THEN [hit |-> TRUE, val |-> l[CacheIndex(l, k)].val, list |-> l]
    ELSE [hit |-> FALSE, val |-> NoGlyph, list |-> l]

\* LruCache::get: a hit is moved to the front of the list.
LruGet(l, k) ==
    IF k \in CacheKeys(l)
    THEN LET e == l[CacheIndex(l, k)]
         IN  [hit |-> TRUE, val |-> e.val, list |-> <<e>> \o Without(l, k)]
    ELSE [hit |-> FALSE, val |-> NoGlyph, list |-> l]

\* LruCache::put: replace or insert at the front; over capacity, the entry
\* at the back goes.
LruPut(l, k, v) ==
    LET e == [key |-> k, val |-> v]
    IN  IF k \in CacheKeys(l)
        THEN [list |-> <<e>> \o Without(l, k), evicted |-> NoKey]
        ELSE IF Len(l) >= CacheCap
             THEN [list |-> <<e>> \o SubSeq(l, 1, Len(l) - 1),
                   evicted |-> l[Len(l)].key]
             ELSE [list |-> <<e>> \o l, evicted |-> NoKey]

\* The coverage patterns a font may give a glyph: the set of bitmap pixels
\* (x, y) with non-zero alpha.  Empty means no pixel was drawn.
FullCover(w, h) == (0 .. w - 1) \X (0 .. h - 1)
Coverages(w, h) ==
    {{}} \cup {FullCover(w, h)} \cup {{p} : p \in {<<0, 0>>, <<1, 1>>}}

(***************************************************************************)
(* render_char_cosmic(c, size, color): look the key up (a hit is returned  *)
(* and promoted); on a miss shape the character; a glyph without a drawn   *)
(* pixel returns None and is not cached; otherwise the bitmap is put into  *)
(* the cache and returned.                                                 *)
(***************************************************************************)
render_char_cosmic(l, c, size, rgba, coverage) ==
    LET key == cache_key(c, size, rgba)
        got == LruGet(l, key)
        bmp == ShapedBitmap(c, size, rgba, coverage)
    IN  IF got.hit
        THEN [ret |-> got.val, list |-> got.list, touched |-> <<key>>,
              evicted |-> NoKey]
        ELSE IF coverage = {}
             THEN [ret |-> NoGlyph, list |-> got.list, touched |-> <<>>,
                   evicted |-> NoKey]
             ELSE LET put == LruPut(got.list, key, bmp)
                  IN  [ret |-> bmp, list |-> put.list, touched |-> <<key>>,
                       evicted |-> put.evicted]

\* render_char_cosmic as it is called: CHAR_CACHE.lock() fails on a poisoned
\* lock and the function returns None at once, lines 184-190; so does a
\* failing FONT_SYSTEM.lock() or SWASH_CACHE.lock() after a cache miss,
\* lines 202-216.
try_render_char_cosmic(locks, l, c, size, rgba, coverage) ==
    LET Failed == [ret |-> NoGlyph, list |-> l, touched |-> <<>>, evicted |-> NoKey]
    IN  IF "CHAR_CACHE" \in locks THEN Failed
        ELSE IF LruGet(l, cache_key(c, size, rgba)).hit
             THEN render_char_cosmic(l, c, size, rgba, coverage)
        ELSE IF locks \cap {"FONT_SYSTEM", "SWASH_CACHE"} # {} THEN Failed
        ELSE render_char_cosmic(l, c, size, rgba, coverage)

CacheRoom == Len(history) < MaxOps

\* The characters and colors draw_char and warm_cache pass to
\* render_char_cosmic.
RequestChars == {CH_a, CH_CJK}
RequestColors == {color_to_rgba(color) : color \in Colors}

RenderCharCosmic ==
    /\ CacheRoom
    /\ \E c \in RequestChars, size \in RequestSizes, rgba \in RequestColors :
         LET w    == ShapedBitmap(c, size, rgba, {}).width
             h    == ShapedBitmap(c, size, rgba, {}).height
         IN  \E coverage \in {{}, FullCover(w, h)} :
               LET r == try_render_char_cosmic(poisoned, cache, c, size, rgba, coverage)
               IN  /\ cache' = r.list
                   /\ history' = history \o r.touched
                   /\ evicted' = r.evicted
                   /\ cacheRet' = [op |-> "render_char_cosmic",
                                   key |-> cache_key(c, size, rgba),
                                   some |-> ~r.ret.none,
                                   glyph |-> coverage # {},
                                   c |-> c, size |-> size, color |-> rgba,
                                   ret |-> r.ret]
                   /\ poisoned' = poisoned
    /\ UNCHANGED <<backendVars, kbdVars, rasterVars, runtimeVars>>

\* CHAR_CACHE is a pub static: a caller may get and put directly.
CacheGet ==
    /\ CacheRoom
    /\ "CHAR_CACHE" \notin poisoned
    /\ \E c \in RequestChars, size \in RequestSizes :
         LET key == cache_key(c, size, color_to_rgba("Reset"))
             got == LruGet(cache, key)
         IN  /\ cache' = got.list
             /\ history' = IF got.hit THEN Append(history, key) ELSE history
             /\ evicted' = NoKey
             /\ cacheRet' = [op |-> "get", key |-> key, some |-> got.hit]
             /\ poisoned' = poisoned
    /\ UNCHANGED <<backendVars, kbdVars, rasterVars, runtimeVars>>

CachePut ==
    /\ CacheRoom
    /\ "CHAR_CACHE" \notin poisoned
    /\ \E c \in RequestChars, size \in RequestSizes :
         LET rgba == color_to_rgba("Reset")
             key  == cache_key(c, size, rgba)
             bmp  == ShapedBitmap(c, size, rgba,
                        FullCover(Max(font_width(size), 4), Max(font_height(size), 4)))
             put  == LruPut(cache, key, bmp)
         IN  /\ cache' = put.list
             /\ history' = Append(history, key)
             /\ evicted' = put.evicted
             /\ cacheRet' = [op |-> "put", key |-> key, some |-> TRUE]
             /\ poisoned' = poisoned
    /\ UNCHANGED <<backendVars, kbdVars, rasterVars, runtimeVars>>

\* A thread panics while it holds the guard of CHAR_CACHE (the static is
\* pub): the mutex stays poisoned and every later lock() returns Err.
CachePoison ==
    /\ "CHAR_CACHE" \notin poisoned
    /\ poisoned' = poisoned \cup {"CHAR_CACHE"}
    /\ evicted' = NoKey
    /\ cacheRet' = [op |-> "poison", key |-> NoKey, some |-> FALSE]
    /\ UNCHANGED <<cache, history, backendVars, kbdVars, rasterVars, runtimeVars>>

CacheInit ==
    /\ poisoned = {}
    /\ cache = <<>>
    /\ history = <<>>
    /\ evicted = NoKey
    /\ cacheRet = [op |-> "none", key |-> NoKey, some |-> FALSE]

(***************************************************************************)
(*                          THE CELL BUFFER                                *)
(***************************************************************************)
Cell(symbol, fg, bg) == [symbol |-> symbol, fg |-> fg, bg |-> bg]

\* Cell::default(): a space with the default colors.
DefaultCell == Cell(<<SPACE>>, "Reset", "Reset")
CellX       == Cell(<<CH_a>>, "Red", "Reset")
CellValues  == {DefaultCell, CellX}

NoCall == [op |-> "none"]
Absent   == [absent |-> TRUE, panic |-> FALSE]
Panicked == [absent |-> TRUE, panic |-> TRUE]
Some(c)  == [absent |-> FALSE, panic |-> FALSE, cell |-> c]

Rect(w, h) == [width |-> w, height |-> h]
RectArea(r) == r.width * r.height

Repeat(v, n) == [i \in 1 .. n |-> v]

\* ratatui Buffer::empty(area): area.area() default cells.
BufferEmpty(r) == Repeat(DefaultCell, RectArea(r))

\* A reset that leaves the first cell as it is.
BufferResetTail(cells) ==
    [i \in DOMAIN cells |-> IF i = 1 THEN cells[i] ELSE DefaultCell]

\* Whether some cell of the buffer is not the default cell.
Dirty(cells) == \E i \in DOMAIN cells : cells[i] # DefaultCell

\* ratatui Buffer::reset(): every cell is reset to the default.
BufferReset(cells) == [i \in DOMAIN cells |-> DefaultCell]

\* ratatui Buffer::resize(area), called by AndroidBackend::resize: the
\* content vector is truncated to the new length, or extended to it with
\* default cells; the cells that stay keep what they hold.
BufferResize(cells, r) ==
    LET length == RectArea(r)
    IN  IF Len(cells) > length
        THEN SubSeq(cells, 1, length)
        ELSE cells \o Repeat(DefaultCell, length - Len(cells))

\* ratatui Buffer::index_of_opt: the index of (x, y) when the area holds it.
BufferContains(r, x, y) == x < r.width /\ y < r.height
BufferIndex(r, x, y) == y * r.width + x + 1

\* ratatui Buffer::cell((x, y)) / cell_mut((x, y)): the cell at the index of
\* (x, y) when the area holds the position; indexing the content vector
\* past its end would panic.
BufferCell(r, cells, x, y) ==
    IF BufferContains(r, x, y)
    THEN IF BufferIndex(r, x, y) \in DOMAIN cells
         THEN Some(cells[BufferIndex(r, x, y)])
         ELSE Panicked
    ELSE Absent

\* AndroidBackend::get_cell / get_cell_mut.
get_cell(w, h, r, cells, x, y) ==
    IF x < w /\ y < h THEN BufferCell(r, cells, x, y) ELSE Absent

\* AndroidBackend::new(width, height).
BackendNew(w, h) ==
    /\ width = w
    /\ height = h
    /\ cursor = <<0, 0>>
    /\ area = Rect(w, h)
    /\ content = BufferEmpty(Rect(w, h))
    /\ bcall = NoCall

Dims == 0 .. MaxDim
CursorPositions == {<<0, 0>>, <<1, 1>>}

BackendInit == \E w \in Dims, h \in Dims : BackendNew(w, h)

BackendIdle == bcall = NoCall

\* AndroidBackend::resize that forgets to store the new width.
ResizeStaleWidth(w, h) ==
    /\ width' = width
    /\ height' = h
    /\ area' = Rect(w, h)
    /\ content' = BufferResize(content, Rect(w, h))

\* AndroidBackend::resize(width, height), lines 81-85.
resize(w, h) ==
    /\ width' = w
    /\ height' = h
    /\ area' = Rect(w, h)
    /\ content' = BufferResize(content, Rect(w, h))

BackendResize ==
    /\ BackendIdle
    /\ \E w \in Dims, h \in Dims :
         /\ resize(w, h)
         /\ bcall' = [op |-> "resize", w |-> w, h |-> h]
    /\ UNCHANGED <<cursor, cacheVars, kbdVars, rasterVars, runtimeVars>>

\* One entry of draw that is written without the bounds check.
DrawEntryUnchecked(w, h, r, cells, e) ==
    IF BufferIndex(r, e.x, e.y) \in DOMAIN cells
    THEN [cells EXCEPT ![BufferIndex(r, e.x, e.y)] = e.cell]
    ELSE cells

\* One entry of Backend::draw, lines 143-147.
DrawEntry(w, h, r, cells, e) ==
    IF e.x < w /\ e.y < h
    THEN IF ~BufferCell(r, cells, e.x, e.y).absent
         THEN [cells EXCEPT ![BufferIndex(r, e.x, e.y)] = e.cell]
         ELSE cells
    ELSE cells

\* Backend::draw(content): the entries in iteration order.
RECURSIVE draw(_, _, _, _, _)
draw(w, h, r, cells, entries) ==
    IF entries = <<>>
    THEN cells
    ELSE draw(w, h, r, DrawEntry(w, h, r, cells, Head(entries)), Tail(entries))

Entries == [x : Dims, y : Dims, cell : CellValues]
EntrySeqs == {<<>>} \cup {<<e>> : e \in Entries}
                \cup {<<e1, e2>> : e1 \in Entries, e2 \in Entries}

BackendDraw ==
    /\ BackendIdle
    /\ \E entries \in EntrySeqs :
         /\ content' = draw(width, height, area, content, entries)
         /\ bcall' = [op |-> "draw", entries |-> entries, ret |-> "Ok"]
    /\ UNCHANGED <<width, height, cursor, area, cacheVars, kbdVars, rasterVars, runtimeVars>>

\* Backend::clear().
BackendClear ==
    /\ BackendIdle
    /\ content' = BufferReset(content)
    /\ bcall' = [op |-> "clear", ret |-> "Ok", dirty |-> Dirty(content)]
    /\ UNCHANGED <<width, height, cursor, area, cacheVars, kbdVars, rasterVars, runtimeVars>>

ClearTypes == {"All", "AfterCursor", "BeforeCursor", "CurrentLine", "UntilNewLine"}

\* Backend::clear_region(clear_type): the whole buffer, whatever the type.
BackendClearRegion ==
    /\ BackendIdle
    /\ \E clear_type \in ClearTypes :
         /\ content' = BufferReset(content)
         /\ bcall' = [op |-> "clear_region", clear_type |-> clear_type, ret |-> "Ok",
                      dirty |-> Dirty(content)]
    /\ UNCHANGED <<width, height, cursor, area, cacheVars, kbdVars, rasterVars, runtimeVars>>

\* Backend::set_cursor_position(position).
BackendSetCursor ==
    /\ BackendIdle
    /\ \E pos \in CursorPositions :
         /\ cursor' = pos
         /\ bcall' = [op |-> "set_cursor_position", pos |-> pos, ret |-> "Ok"]
    /\ UNCHANGED <<width, height, area, content, cacheVars, kbdVars, rasterVars, runtimeVars>>

\* A call of get_cell(x, y) or get_cell_mut(x, y).
BackendGetCell ==
    /\ BackendIdle
    /\ \E x \in 0 .. MaxDim + 1, y \in 0 .. MaxDim + 1, op \in {"get_cell", "get_cell_mut"} :
         bcall' = [op |-> op, x |-> x, y |-> y,
                   ret |-> get_cell(width, height, area, content, x, y)]
    /\ UNCHANGED <<width, height, cursor, area, content, cacheVars, kbdVars, rasterVars, runtimeVars>>

\* The call returns to the driver.
BackendReturn ==
    /\ bcall # NoCall
    /\ bcall' = NoCall
    /\ UNCHANGED <<width, height, cursor, area, content, cacheVars, kbdVars, rasterVars, runtimeVars>>

(***************************************************************************)
(*                           MACHINE WORDS                                 *)
(*                                                                         *)
(* usize is a word of WordBits bits.  An arithmetic result above USIZE_MAX *)
(* overflows: a build with overflow checks (debug) panics there, a build   *)
(* without them (release) goes on with the result modulo 2^WordBits.       *)
(***************************************************************************)
RECURSIVE Pow2(_)
Pow2(n) == IF n = 0 THEN 1 ELSE 2 * Pow2(n - 1)

Modulus   == Pow2(WordBits)
USIZE_MAX == Modulus - 1
Wrap(v)   == v % Modulus

\* A stride whose row length in bytes (stride * 4) is exactly 2^WordBits.
BigStride == Pow2(WordBits - 2)

\* The program order of the pixel writes of one call, as 5-tuples compared
\* lexicographically.
LexLt(a, b) == \E i \in 1 .. 5 : a[i] < b[i] /\ \A j \in 1 .. i - 1 : a[j] = b[j]

\* The same write without the check against dest.len().
PixelOpUnchecked(ord, px, py, stride, dest_len, layer, who) ==
    LET raw == (py * stride + px) * 4
    IN  [ord |-> ord, x |-> px, y |-> py, idx |-> Wrap(raw),
         ovf |-> raw > USIZE_MAX, ok |-> TRUE,
         layer |-> layer, who |-> who]

\* One pixel write as the code attempts it:
\*     let idx = (py * stride + px) * 4;  if idx + 3 < dest.len() { dest[idx..idx+3] = .. }
\* ovf: the index computation overflows the word; ok: the bounds check passes.
PixelOp(ord, px, py, stride, dest_len, layer, who) ==
    LET raw == (py * stride + px) * 4
    IN  [ord |-> ord, x |-> px, y |-> py, idx |-> Wrap(raw),
         ovf |-> raw > USIZE_MAX, ok |-> Wrap(raw) + 3 < dest_len,
         layer |-> layer, who |-> who]

Written(o) == [x |-> o.x, y |-> o.y, idx |-> o.idx, layer |-> o.layer, who |-> o.who]

\* The writes a call performs, given its write attempts in program order:
\* with overflow checks the call panics at the first overflowing index and
\* only the writes before it happen; without them every attempt that passes
\* its bounds check is written.
RunOps(ops, overflow_checks) ==
    LET faults == {o.ord : o \in {p \in ops : p.ovf}}
    IN  IF overflow_checks /\ faults # {}
        THEN LET first == CHOOSE f \in faults : \A g \in faults : g = f \/ LexLt(f, g)
             IN  [panic  |-> "overflow",
                  writes |-> {Written(o) : o \in {p \in ops : p.ok /\ LexLt(p.ord, first)}}]
        ELSE [panic  |-> "none",
              writes |-> {Written(o) : o \in {p \in ops : p.ok}}]

(***************************************************************************)
(*                        THE DIRECT KEYBOARD                              *)
(***************************************************************************)
Button(label, key_name, width_units) ==
    [label |-> label, key_name |-> key_name, width_units |-> width_units]

\* DirectKeyboard::new(): the two rows and the padding of row 2, in units.
row1 == << Button(<<"E", "S", "C">>, "ESC", 1),
           Button(<<"T", "A", "B">>, "TAB", 1),
           Button(<<"S", "F", "T">>, "SHIFT", 1),
           Button(<<"C", "T", "L">>, "CTRL", 1),
           Button(<<"^">>, "UP", 1),
           Button(<<"D", "E", "L">>, "DELETE", 1),
           Button(<<"R", "E", "T">>, "ENTER", 1) >>
row2 == << Button(<<"<">>, "LEFT", 1),
           Button(<<"v">>, "DOWN", 1),
           Button(<<">">>, "RIGHT", 1),
           Button(<<"K", "B">>, "KEYBOARD", 1) >>
row2_padding == 3

KeyNames == {row1[i].key_name : i \in DOMAIN row1} \cup {row2[i].key_name : i \in DOMAIN row2}
NoKeyName == "None"
\* press_time is None.
NoTime == -1

RECURSIVE SumUnits(_)
SumUnits(row) == IF row = <<>> THEN 0 ELSE Head(row).width_units + SumUnits(Tail(row))

\* DirectKeyboardState::new().
NewKeyboardState ==
    [pressed_key |-> NoKeyName, press_time |-> NoTime,
     shift_active |-> FALSE, ctrl_active |-> FALSE]

\* The 5x7 bitmap font of draw_char: the seven rows of a character, each a
\* 5-bit pattern.
pattern(ch) ==
    CASE ch = "A" -> <<14, 17, 17, 31, 17, 17, 17>>
      [] ch = "B" -> <<30, 17, 17, 30, 17, 17, 30>>
      [] ch = "C" -> <<14, 17, 16, 16, 16, 17, 14>>
      [] ch = "D" -> <<30, 17, 17, 17, 17, 17, 30>>
      [] ch = "E" -> <<31, 16, 16, 30, 16, 16, 31>>
      [] ch = "F" -> <<31, 16, 16, 30, 16, 16, 16>>
      [] ch = "G" -> <<14, 17, 16, 23, 17, 17, 14>>
      [] ch = "H" -> <<17, 17, 17, 31, 17, 17, 17>>
      [] ch = "I" -> <<14, 4, 4, 4, 4, 4, 14>>
      [] ch = "K" -> <<17, 18, 20, 24, 20, 18, 17>>
      [] ch = "L" -> <<16, 16, 16, 16, 16, 16, 31>>
      [] ch = "R" -> <<30, 17, 17, 30, 20, 18, 17>>
      [] ch = "S" -> <<15, 16, 16, 14, 1, 1, 30>>
      [] ch = "T" -> <<31, 4, 4, 4, 4, 4, 4>>
      [] ch = "^" -> <<4, 14, 21, 4, 4, 4, 0>>
      [] ch = "v" -> <<0, 4, 4, 4, 21, 14, 4>>
      [] ch = "<" -> <<2, 4, 8, 16, 8, 4, 2>>
      [] ch = ">" -> <<8, 4, 2, 1, 2, 4, 8>>
      [] OTHER    -> <<0, 0, 0, 0, 0, 0, 0>>

\* (bits >> (4 - col)) & 1 == 1
BitSet(bits, col) == (bits \div Pow2(4 - col)) % 2 = 1

\* ---- render: the layout, lines 135-140 and 166-214 ----
render_button_width(window_width) ==
    Min(window_width \div SumUnits(row1), 150)

render_keyboard_x(window_width) ==
    LET keyboard_width == render_button_width(window_width) * SumUnits(row1)
    IN  Max(window_width - keyboard_width, 0) \div 2

\* x_offset before button i of a row that starts at x_offset = start.
RECURSIVE RenderOffset(_, _, _, _)
RenderOffset(row, start, button_width, i) ==
    IF i = 1 THEN start
    ELSE RenderOffset(row, start, button_width, i - 1)
           + button_width * row[i - 1].width_units + 2

\* The background of a button of row 1 and of row 2.
Row1Bg(state, key_name) ==
    IF state.pressed_key = key_name THEN "bg_active"
    ELSE IF (key_name = "SHIFT" /\ state.shift_active)
              \/ (key_name = "CTRL" /\ state.ctrl_active) THEN "bg_toggle"
    ELSE IF key_name = "ENTER" THEN "bg_blue"
    ELSE "bg_dark"

Row2Bg(state, key_name) ==
    IF state.pressed_key = key_name THEN "bg_active"
    ELSE IF key_name = "KEYBOARD" THEN "bg_blue"
    ELSE "bg_dark"

\* The draw_button calls of render, in order: row 1, then row 2.
RenderButtons(state, window_width, keyboard_y, button_height) ==
    LET button_width == render_button_width(window_width)
        keyboard_x   == render_keyboard_x(window_width)
        row1_y       == keyboard_y + 1
        row2_y       == keyboard_y + button_height + 3
        row2_x       == keyboard_x + (button_width * row2_padding) + (2 * row2_padding)
    IN  [i \in DOMAIN row1 |->
            [key_name |-> row1[i].key_name, label |-> row1[i].label,
             x |-> RenderOffset(row1, keyboard_x, button_width, i), y |-> row1_y,
             width |-> button_width * row1[i].width_units, height |-> button_height,
             bg |-> Row1Bg(state, row1[i].key_name),
             fg |-> IF row1[i].key_name = "UP" THEN "fg_yellow" ELSE "fg_white"]]
        \o
        [i \in DOMAIN row2 |->
            [key_name |-> row2[i].key_name, label |-> row2[i].label,
             x |-> RenderOffset(row2, row2_x, button_width, i), y |-> row2_y,
             width |-> button_width * row2[i].width_units, height |-> button_height,
             bg |-> Row2Bg(state, row2[i].key_name),
             fg |-> IF row2[i].key_name \in {"LEFT", "DOWN", "RIGHT"}
                    THEN "fg_yellow" ELSE "fg_white"]]

\* draw_button: the body of the button, lines 230-253.
ButtonBodyOps(j, b, stride, dest_len) ==
    {PixelOp(<<j, 0, py, px, 0>>, px, py, stride, dest_len, "button", b.key_name) :
        py \in b.y .. b.y + b.height - 1, px \in b.x .. b.x + b.width - 1}

\* draw_text and draw_char: the label, centered in the button.
ButtonTextOps(j, b, stride, dest_len) ==
    LET char_width       == 5
        char_height      == 7
        char_spacing     == 1
        total_text_width == Len(b.label) * (char_width + char_spacing) - char_spacing
        start_x          == b.x + Max(b.width - total_text_width, 0) \div 2
        start_y          == b.y + Max(b.height - char_height, 0) \div 2
    IN  UNION {
          {PixelOp(<<j, 1, i, rc[1], rc[2]>>,
                   start_x + (i - 1) * (char_width + char_spacing) + rc[2],
                   start_y + rc[1], stride, dest_len, "label", b.key_name) :
             rc \in {q \in (0 .. 6) \X (0 .. 4) : BitSet(pattern(b.label[i])[q[1] + 1], q[2])}}
          : i \in DOMAIN b.label}

\* The keyboard background strip, lines 153-164.
StripOps(stride, window_width, keyboard_y, max_y, dest_len) ==
    {PixelOp(<<0, 0, y, x, 0>>, x, y, stride, dest_len, "kb_bg", NoKeyName) :
        y \in keyboard_y .. max_y - 1, x \in 0 .. window_width - 1}

(***************************************************************************)
(* DirectKeyboard::render(state, dest, stride, window_width,               *)
(* _window_height, keyboard_y, button_height).  The first computation that *)
(* can fail is dest.len() / (stride * 4): stride * 4 may overflow, and a   *)
(* divisor of 0 panics in every build.                                     *)
(***************************************************************************)
render(state, dest_len, stride, window_width, keyboard_y, button_height, overflow_checks) ==
    LET buttons  == RenderButtons(state, window_width, keyboard_y, button_height)
        row_len  == stride * 4
        NoWrites == [buttons |-> <<>>, writes |-> {}]
    IN  IF row_len > USIZE_MAX /\ overflow_checks
        THEN [panic |-> "overflow"] @@ NoWrites
        ELSE IF Wrap(row_len) = 0
        THEN [panic |-> "division by zero"] @@ NoWrites
        ELSE
          LET max_y == Min(keyboard_y + button_height * 2 + 4, dest_len \div Wrap(row_len))
              ops   == StripOps(stride, window_width, keyboard_y, max_y, dest_len)
                         \cup UNION {ButtonBodyOps(j, buttons[j], stride, dest_len)
                                       \cup ButtonTextOps(j, buttons[j], stride, dest_len)
                                     : j \in DOMAIN buttons}
              run   == RunOps(ops, overflow_checks)
          IN  [panic |-> run.panic, buttons |-> buttons, writes |-> run.writes]

\* ---- handle_touch: the layout again, lines 333-338 and 340-366 ----
touch_button_width_100(window_width) ==
    Min(window_width \div SumUnits(row1), 100)

touch_button_width(window_width) ==
    Min(window_width \div SumUnits(row1), 150)

touch_keyboard_x(window_width) ==
    LET keyboard_width == touch_button_width(window_width) * SumUnits(row1)
    IN  Max(window_width - keyboard_width, 0) \div 2

RECURSIVE TouchOffset(_, _, _, _)
TouchOffset(row, start, button_width, i) ==
    IF i = 1 THEN start
    ELSE TouchOffset(row, start, button_width, i - 1)
           + button_width * row[i - 1].width_units + 2

\* The loop over one row: the first button whose span holds touch_x.
RowHit(row, start, button_width, touch_x) ==
    LET hits == {i \in DOMAIN row :
                   /\ touch_x >= TouchOffset(row, start, button_width, i)
                   /\ touch_x < TouchOffset(row, start, button_width, i)
                                  + button_width * row[i].width_units}
    IN  IF hits = {} THEN NoKeyName
        ELSE row[CHOOSE i \in hits : \A j \in hits : i <= j].key_name

handle_touch(touch_x, touch_y, window_width, keyboard_y, button_height) ==
    LET button_width == touch_button_width(window_width)
        keyboard_x   == touch_keyboard_x(window_width)
        row1_y       == keyboard_y + 1
        row2_y       == keyboard_y + button_height + 3
        hit1 == IF touch_y >= row1_y /\ touch_y < row1_y + button_height
                THEN RowHit(row1, keyboard_x, button_width, touch_x)
                ELSE NoKeyName
        hit2 == IF touch_y >= row2_y /\ touch_y < row2_y + button_height
                THEN RowHit(row2,
                            keyboard_x + (button_width * row2_padding) + (2 * row2_padding),
                            button_width, touch_x)
                ELSE NoKeyName
    IN  IF hit1 # NoKeyName THEN hit1 ELSE hit2

\* ---- the calls ----
\* Window widths: render draws into the narrow ones; handle_touch is also
\* asked about a window wide enough for the cap on the button width.
RenderWidths  == {0, 6, 7, 20}
TouchWidths   == RenderWidths \cup {1064}
KbdYs         == {0, 2}
ButtonHeights == {0, 1, 2}
KbdStrides(window_width) == {0, window_width, window_width + 1, BigStride}
KbdDestLens(stride, rows) ==
    {0, 10, Min(stride * rows * 4, USIZE_MAX), Min(stride * rows * 4 + 3, USIZE_MAX)}

NoKbdCall == [op |-> "none"]
\* No render_to_surface_with_offset call is in progress.
NoFrame   == [op |-> "none"]

KeyboardInit ==
    /\ kbd = NewKeyboardState
    /\ kcall = NoKbdCall

KeyboardRender ==
    /\ kcall = NoKbdCall
    /\ frame = NoFrame
    /\ \E window_width \in RenderWidths, keyboard_y \in KbdYs,
          button_height \in ButtonHeights, overflow_checks \in BOOLEAN :
         \E stride \in KbdStrides(window_width) :
           \E dest_len \in KbdDestLens(stride, keyboard_y + 2 * button_height + 4) :
             kcall' = [op |-> "render", dest_len |-> dest_len, stride |-> stride,
                       window_width |-> window_width, keyboard_y |-> keyboard_y,
                       button_height |-> button_height]
                      @@ render(kbd, dest_len, stride, window_width, keyboard_y,
                                button_height, overflow_checks)
    /\ UNCHANGED <<kbd, cacheVars, backendVars, rasterVars, runtimeVars>>

KeyboardTouch ==
    /\ kcall = NoKbdCall
    /\ \E window_width \in TouchWidths, keyboard_y \in KbdYs, button_height \in ButtonHeights :
         \E touch_x \in 0 .. window_width + 13,
            touch_y \in 0 .. keyboard_y + 2 * button_height + 5 :
           kcall' = [op |-> "handle_touch", touch_x |-> touch_x, touch_y |-> touch_y,
                     window_width |-> window_width, keyboard_y |-> keyboard_y,
                     button_height |-> button_height,
                     ret |-> handle_touch(touch_x, touch_y, window_width, keyboard_y,
                                          button_height)]
    /\ UNCHANGED <<kbd, cacheVars, backendVars, rasterVars, runtimeVars>>

KeyboardReturn ==
    /\ kcall # NoKbdCall
    /\ kcall' = NoKbdCall
    /\ UNCHANGED <<kbd, cacheVars, backendVars, rasterVars, runtimeVars>>

(***************************************************************************)
(*                            THE RASTERIZER                               *)
(***************************************************************************)
NoRasterizer == [none |-> TRUE]

\* Rasterizer::new(font_size).
RasterizerNew(size) ==
    [none |-> FALSE, font_size |-> size,
     font_width |-> font_width(size), font_height |-> font_height(size)]

\* No Rasterizer has been constructed.
RasterNone == rasterizer = NoRasterizer /\ frame = NoFrame

RasterInit ==
    /\ \E size \in FontSizes : rasterizer = RasterizerNew(size)
    /\ frame = NoFrame

(***************************************************************************)
(* The font database the rasterizer shapes with, as the coverage of each   *)
(* glyph in a bitmap of w x h pixels: 'a' is a glyph of a single pixel,    *)
(* U+65E5 covers its bitmap, and the database has no glyph for the other   *)
(* characters (U+4E2D among them), which therefore shape to nothing.       *)
(***************************************************************************)
FontGlyph(c, w, h) ==
    CASE c = CH_a     -> {<<1, 1>>}
      [] c = CH_NICHI -> FullCover(w, h)
      [] OTHER        -> {}

\* The order of two events of one call, as 5-tuples: before or the same.
LexLe(a, b) == a = b \/ LexLt(a, b)

\* render_cell_background: the pixels of the cell's rectangle that lie in
\* the window.
render_cell_background(ty, tx, g, px_start, py_start, cell_width, row_height) ==
    {PixelOp(<<ty, tx, 0, py_offset, px_offset>>, px_start + px_offset,
             py_start + py_offset, g.stride, g.dest_len, "bg", <<tx, ty>>) :
        py_offset \in {o \in 0 .. row_height - 1 : py_start + o < g.window_height},
        px_offset \in {o \in 0 .. cell_width - 1 : px_start + o < g.window_width}}

(***************************************************************************)
(* render_bitmap: the bitmap is scaled by min(scale_x, scale_y, 1), kept   *)
(* here as the fraction num / den, centered horizontally in the cell and   *)
(* sampled by nearest neighbour; a source pixel of alpha 0 writes nothing. *)
(***************************************************************************)
render_bitmap(ty, tx, k, g, bmp, px, py, cell_width_multiplier) ==
    LET bitmap_width  == bmp.width
        bitmap_height == bmp.height
        cell_width    == g.font_width * cell_width_multiplier
        cell_height   == g.font_height
        scale_x_le_y  == cell_width * bitmap_height <= cell_height * bitmap_width
        num0 == IF scale_x_le_y THEN cell_width ELSE cell_height
        den0 == IF scale_x_le_y THEN bitmap_width ELSE bitmap_height
        num  == IF num0 >= den0 THEN 1 ELSE num0
        den  == IF num0 >= den0 THEN 1 ELSE den0
        scaled_width  == (bitmap_width * num) \div den
        scaled_height == (bitmap_height * num) \div den
        offset_x == Max(cell_width - scaled_width, 0) \div 2
    IN  {PixelOp(<<ty, tx, k, rel[1], rel[2]>>, px + offset_x + rel[2], py + rel[1],
                 g.stride, g.dest_len, "glyph", <<tx, ty>>) :
           rel \in {q \in (0 .. scaled_height - 1) \X (0 .. scaled_width - 1) :
                      /\ py + q[1] < g.window_height
                      /\ (q[1] * den) \div num < bitmap_height
                      /\ px + offset_x + q[2] < g.window_width
                      /\ (q[2] * den) \div num < bitmap_width
                      /\ <<(q[2] * den) \div num, (q[1] * den) \div num>> \in bmp.cover}}

\* draw_fallback_block: a square of max(font_height * 0.6, 4) pixels.
draw_fallback_block(ty, tx, k, g, px, py) ==
    LET block_size == Max((g.font_height * 6) \div 10, 4)
        start_x == px + Max(g.font_width - block_size, 0) \div 2
        start_y == py + Max(g.font_height - block_size, 0) \div 2
        end_x   == Min(start_x + block_size, g.window_width)
        end_y   == Min(start_y + block_size, g.window_height)
    IN  IF start_x >= g.window_width \/ start_y >= g.window_height
        THEN {}
        ELSE {PixelOp(<<ty, tx, k, y - start_y, x - start_x>>, x, y,
                      g.stride, g.dest_len, "block", <<tx, ty>>) :
                y \in start_y .. end_y - 1, x \in start_x .. end_x - 1}

(***************************************************************************)
(* draw_char: the shaped (or cached) bitmap when render_char_cosmic gives  *)
(* one, otherwise the fallback block.  The platform-native renderer is a   *)
(* compile-time feature and is not part of this build.                     *)
(***************************************************************************)
draw_char(l, ty, tx, k, g, c, px, py, color) ==
    LET shaped == ShapedBitmap(c, g.font_size, color, {})
        r == try_render_char_cosmic(poisoned, l, c, g.font_size, color,
                                    FontGlyph(c, shaped.width, shaped.height))
    IN  IF ~r.ret.none /\ r.ret.width > 0 /\ r.ret.height > 0
        THEN [list |-> r.list, path |-> "bitmap",
              ops  |-> render_bitmap(ty, tx, k, g, r.ret, px, py,
                                     IF is_wide_char(c) THEN 2 ELSE 1)]
        ELSE [list |-> r.list, path |-> "block",
              ops  |-> draw_fallback_block(ty, tx, k, g, px, py)]

\* The element of a singleton set.  A loop hands its record on as
\* The({Loop(n, ..) : n \in {next}}), so that each pass is computed once.
The(S) == CHOOSE x \in S : TRUE

\* The record of one call while its loops run: the cache list, the pixel
\* writes attempted, the cells whose background was rendered and the
\* draw_char calls made.
NoAcc(l) == [list |-> l, ops |-> {}, cells |-> {}, chars |-> <<>>]

\* The loop over the characters of a symbol, lines 509-533, from its i-th
\* character with the pen at char_x.
RECURSIVE DrawChars(_, _, _, _, _, _)
DrawChars(acc, g, cl, symbol, i, char_x) ==
    IF i > Len(symbol) THEN acc
    ELSE LET ch == symbol[i]
         IN  IF ch = SPACE
             THEN DrawChars(acc, g, cl, symbol, i + 1, char_x + g.font_width)
             ELSE IF char_x < cl.px_start + cl.cell_width
             THEN LET d == draw_char(acc.list, cl.ty, cl.tx, i, g, ch, char_x,
                                     cl.py_start, color_to_rgba(cl.fg))
                      e == [ord |-> <<cl.ty, cl.tx, i, 0, 0>>, tx |-> cl.tx,
                            ty |-> cl.ty, ch |-> ch, px |-> char_x,
                            path |-> d.path, list |-> d.list]
                      next == [list  |-> d.list,
                               ops   |-> acc.ops \cup d.ops,
                               cells |-> acc.cells,
                               chars |-> Append(acc.chars, e)]
                  IN  The({DrawChars(n, g, cl, symbol, i + 1,
                                     char_x + (IF is_wide_char(ch)
                                               THEN g.font_width * 2 ELSE g.font_width))
                           : n \in {next}})
             ELSE acc

\* The skip mark left untouched by a wide cell.
skip_after_unset(char_is_wide, term_x, skip_until_x) == skip_until_x

\* if char_is_wide { skip_until_x = term_x + 2; }
skip_after(char_is_wide, term_x, skip_until_x) ==
    IF char_is_wide THEN term_x + 2 ELSE skip_until_x

\* The loop over the columns of row term_y, lines 456-535, from column
\* term_x with the skip mark at skip_until_x.
RECURSIVE RenderColumns(_, _, _, _, _, _, _, _)
RenderColumns(acc, g, b, term_y, py_start, row_height, term_x, skip_until_x) ==
    IF term_x >= b.area.width THEN acc
    ELSE IF term_x < skip_until_x
    THEN RenderColumns(acc, g, b, term_y, py_start, row_height, term_x + 1, skip_until_x)
    ELSE
      LET got      == get_cell(b.width, b.height, b.area, b.content, term_x, term_y)
          cell     == IF got.absent THEN DefaultCell ELSE got.cell
          symbol   == cell.symbol
          px_start == term_x * g.font_width
      IN  IF px_start >= g.window_width
          THEN RenderColumns(acc, g, b, term_y, py_start, row_height, term_x + 1,
                             skip_until_x)
          ELSE
            LET first_ch     == IF symbol = <<>> THEN SPACE ELSE symbol[1]
                char_is_wide == is_wide_char(first_ch)
                px_end       == (term_x + (IF char_is_wide THEN 2 ELSE 1)) * g.font_width
                cell_width   == Min(px_end - px_start, g.window_width - px_start)
            IN  IF cell_width = 0
                THEN RenderColumns(acc, g, b, term_y, py_start, row_height,
                                   term_x + 1, skip_until_x)
                ELSE
                  LET cl == [ord |-> <<term_y, term_x, 0, 0, 0>>, tx |-> term_x,
                             ty |-> term_y, symbol |-> symbol, fg |-> cell.fg,
                             bg |-> cell.bg, wide |-> char_is_wide,
                             px_start |-> px_start, py_start |-> py_start,
                             cell_width |-> cell_width, row_height |-> row_height]
                      bg == [list  |-> acc.list,
                             ops   |-> acc.ops \cup
                                       render_cell_background(term_y, term_x, g, px_start,
                                           py_start, cell_width, row_height),
                             cells |-> acc.cells \cup {cl},
                             chars |-> acc.chars]
                      fgd == IF symbol # <<>> /\ first_ch # SPACE
                             THEN The({DrawChars(n, g, cl, symbol, 1, px_start) : n \in {bg}})
                             ELSE bg
                  IN  The({RenderColumns(n, g, b, term_y, py_start, row_height, term_x + 1,
                                         skip_after(char_is_wide, term_x, skip_until_x))
                           : n \in {fgd}})

\* The loop over the rows, lines 441-536, from row term_y.
RECURSIVE RenderRows(_, _, _, _)
RenderRows(acc, g, b, term_y) ==
    IF term_y >= b.area.height THEN acc
    ELSE
      LET max_render_height == Max(g.window_height - g.bottom_offset_px, 0)
          py_start   == term_y * g.font_height + g.top_offset_px
          py_end     == (term_y + 1) * g.font_height + g.top_offset_px
          row_height == Min(py_end - py_start, Max(max_render_height - py_start, 0))
      IN  IF py_start >= max_render_height \/ row_height = 0
          THEN RenderRows(acc, g, b, term_y + 1)
          ELSE The({RenderRows(n, g, b, term_y + 1)
                    : n \in {RenderColumns(acc, g, b, term_y, py_start, row_height, 0, 0)}})

\* What a call whose loops attempted `all` has done when it ends: with
\* overflow checks it ends at the first overflowing pixel index, and the
\* cells, draw_char calls and cache lookups after that did not happen.
CharEvent(e) == [f \in {"tx", "ty", "ch", "px", "path"} |-> e[f]]
RenderedFrame(l, all, overflow_checks) ==
    LET faults == {o.ord : o \in {p \in all.ops : p.ovf}}
    IN  IF ~overflow_checks \/ faults = {}
        THEN [panic |-> "none", early |-> FALSE, cells |-> all.cells,
              chars |-> {CharEvent(all.chars[i]) : i \in DOMAIN all.chars},
              writes |-> RunOps(all.ops, overflow_checks).writes, list |-> all.list]
        ELSE
          LET first == CHOOSE f \in faults : \A f2 \in faults : LexLe(f, f2)
              begun == {i \in DOMAIN all.chars : LexLe(all.chars[i].ord, first)}
          IN  [panic |-> RunOps(all.ops, overflow_checks).panic, early |-> FALSE,
               cells |-> {c \in all.cells : LexLe(c.ord, first)},
               chars |-> {CharEvent(all.chars[i]) : i \in begun},
               writes |-> RunOps(all.ops, overflow_checks).writes,
               list |-> IF begun = {} THEN l
                        ELSE all.chars[CHOOSE i \in begun : \A j \in begun : j <= i].list]

(***************************************************************************)
(* render_to_surface_with_offset(backend, dest, stride, window_width,      *)
(* window_height, top_offset_px, bottom_offset_px) on the cache list l.    *)
(* expected_buffer_size = stride * window_height * 4 is plain usize        *)
(* arithmetic, and so is every pixel index.  The other sums and products   *)
(* (cell and pixel coordinates) stay far below the word for the geometries *)
(* drawn here.  With overflow checks the call stops at the first overflow: *)
(* the events after it do not happen.                                      *)
(***************************************************************************)
render_to_surface_with_offset(l, r, b, dest_len, stride, window_width, window_height, top_offset_px, bottom_offset_px, overflow_checks) ==
    LET expected_buffer_size == stride * window_height * 4
        g == [font_size |-> r.font_size, font_width |-> r.font_width,
              font_height |-> r.font_height, dest_len |-> dest_len, stride |-> stride,
              window_width |-> window_width, window_height |-> window_height,
              top_offset_px |-> top_offset_px, bottom_offset_px |-> bottom_offset_px]
        Nothing == [cells |-> {}, chars |-> {}, writes |-> {}, list |-> l]
    IN  IF expected_buffer_size > USIZE_MAX /\ overflow_checks
        THEN [panic |-> "overflow", early |-> FALSE] @@ Nothing
        ELSE IF dest_len < Wrap(expected_buffer_size)
        THEN [panic |-> "none", early |-> TRUE] @@ Nothing
        ELSE The({RenderedFrame(l, all, overflow_checks)
                  : all \in {The({RenderRows(n, g, b, 0) : n \in {NoAcc(l)}})}})

\* ---- the calls ----
\* The backends handed to the rasterizer: every row holds the same cells.
RasterSymbols == {<<SPACE>>, <<CH_a>>, <<CH_CJK>>, <<CH_NICHI>>}
RasterCols    == {1, 3}
RasterRowNums == {1, 2}
RasterBackend(w, h, row) ==
    [width |-> w, height |-> h, area |-> Rect(w, h),
     content |-> [i \in 1 .. w * h |-> Cell(row[((i - 1) % w) + 1], "Reset", "Reset")]]
RasterBackends(cols) ==
    {RasterBackend(0, 0, <<>>)} \cup
    UNION {{RasterBackend(w, h, row) :
               h \in RasterRowNums, row \in [1 .. w -> RasterSymbols]} : w \in cols}

RasterCall(b, dest_len, stride, window_width, window_height, top_offset_px, bottom_offset_px, overflow_checks) ==
    [backend |-> b, dest_len |-> dest_len, stride |-> stride,
     window_width |-> window_width, window_height |-> window_height,
     top_offset_px |-> top_offset_px, bottom_offset_px |-> bottom_offset_px,
     overflow_checks |-> overflow_checks]

\* Surfaces as the window system hands them out (the stride is the window
\* width and dest holds exactly the window), under every backend, window
\* size and pair of offsets.
LayoutCalls(r) ==
    {RasterCall(b, window_width * window_height * 4, window_width, window_width,
                window_height, off, off, TRUE) :
        b \in RasterBackends(RasterCols),
        window_width \in {r.font_width, 2 * r.font_width + 1, 3 * r.font_width},
        window_height \in {r.font_height, 2 * r.font_height},
        off \in {0, 1}}

\* Every other surface: any stride and any length of dest.
RasterStrides(window_width) == {0, window_width, window_width + 1, BigStride}
RasterDestLens(stride, rows) ==
    {0, 16, Max(Min(stride * rows * 4, USIZE_MAX) - 1, 0), Min(stride * rows * 4, USIZE_MAX)}
MemoryCalls(r) ==
    UNION {
      UNION {
        {RasterCall(b, dest_len, stride, window_width, window_height, 0, 0, oc) :
            b \in RasterBackends({1}),
            dest_len \in RasterDestLens(stride, window_height),
            oc \in BOOLEAN}
        : stride \in RasterStrides(window_width),
          window_height \in {0, 2 * r.font_height}}
      : window_width \in {0, 2 * r.font_width}}

RasterRender ==
    /\ frame = NoFrame
    /\ kcall = NoKbdCall
    /\ \E in \in LayoutCalls(rasterizer) \cup MemoryCalls(rasterizer) :
         \E out \in {render_to_surface_with_offset(cache, rasterizer, in.backend,
                        in.dest_len, in.stride, in.window_width, in.window_height,
                        in.top_offset_px, in.bottom_offset_px, in.overflow_checks)} :
             /\ frame' = [op |-> "render", panic |-> out.panic, early |-> out.early,
                          cells |-> out.cells, chars |-> out.chars,
                          writes |-> out.writes] @@ in
             /\ cache' = out.list
    /\ UNCHANGED <<rasterizer, history, evicted, cacheRet, poisoned, backendVars, kbdVars, runtimeVars>>

\* The call returns.
RasterReturn ==
    /\ frame # NoFrame
    /\ frame' = NoFrame
    /\ UNCHANGED <<rasterizer, cacheVars, backendVars, kbdVars, runtimeVars>>

(***************************************************************************)
(*                          PURE FUNCTIONS                                 *)
(*                                                                         *)
(* pcall holds one application of a function that reads no state: its      *)
(* arguments and what it returned.                                         *)
(***************************************************************************)
NoPCall == [op |-> "none"]

PureInit == pcall = NoPCall

PureReturn ==
    /\ pcall # NoPCall
    /\ pcall' = NoPCall
    /\ UNCHANGED <<cacheVars, backendVars, kbdVars, rasterVars, loopVars, lockVars, softVars, widgetVars>>

\* ---- render_bitmap, the compositing of one pixel, lines 694-714 ----
ByteSamples == {0, 1, 128, 255}
Pixels == ByteSamples \X ByteSamples \X ByteSamples \X ByteSamples

\* dest[idx + 3] = src alpha, where the code takes the maximum.
BlendAlphaReplace(dest_alpha, alpha) == alpha

\* dest[idx + 3] = dest[idx + 3].max(alpha)
BlendAlpha(dest_alpha, alpha) == Max(dest_alpha, alpha)

\* ((dest as f32 * bg_alpha) + (src as f32 * alpha_f)) as u8 with
\* alpha_f = alpha / 255.0 and bg_alpha = 1.0 - alpha_f.  For alpha = 255
\* alpha_f is exactly 1 and the result is src.  Otherwise the exact value
\* is (dest * (255 - alpha) + src * alpha) / 255; the f32 roundings move
\* the computed value by far less than 1/255, so the truncation gives the
\* floor of the exact value unless that value is a whole number, where the
\* computed value may fall just below it.
BlendChannel(dest, src, alpha) ==
    LET num == dest * (255 - alpha) + src * alpha
        q   == num \div 255
    IN  IF alpha = 255 THEN {src}
        ELSE IF num % 255 = 0 /\ q > 0 THEN {q - 1, q}
        ELSE {q}

\* The pixels the loop body may leave in dest for one source pixel: alpha 0
\* skips the body.
composite(dest, src) ==
    IF src[4] = 0 THEN {dest}
    ELSE {<<r, g, b, BlendAlpha(dest[4], src[4])>> :
             r \in BlendChannel(dest[1], src[1], src[4]),
             g \in BlendChannel(dest[2], src[2], src[4]),
             b \in BlendChannel(dest[3], src[3], src[4])}

Composite ==
    /\ pcall = NoPCall
    /\ \E dest \in Pixels, src \in Pixels :
         \E out \in composite(dest, src) :
            pcall' = [op |-> "composite", dest |-> dest, src |-> src, out |-> out]
    /\ UNCHANGED <<cacheVars, backendVars, kbdVars, rasterVars, loopVars, lockVars, softVars, widgetVars>>

\* ---- key_to_crossterm_event, input.rs lines 79-116 ----
\* A key name is a &str: here the sequence of its code points.
KEY_ESC       == <<69, 83, 67>>
KEY_TAB       == <<84, 65, 66>>
KEY_SHIFT     == <<83, 72, 73, 70, 84>>
KEY_CTRL      == <<67, 84, 82, 76>>
KEY_UP        == <<85, 80>>
KEY_DOWN      == <<68, 79, 87, 78>>
KEY_LEFT      == <<76, 69, 70, 84>>
KEY_RIGHT     == <<82, 73, 71, 72, 84>>
KEY_ENTER     == <<69, 78, 84, 69, 82>>
KEY_SPACE     == <<83, 80, 65, 67, 69>>
KEY_BACKSPACE == <<66, 65, 67, 75, 83, 80, 65, 67, 69>>
KEY_DELETE    == <<68, 69, 76, 69, 84, 69>>
KEY_KEYBOARD  == <<75, 69, 89, 66, 79, 65, 82, 68>>

\* The number of bytes of a code point in UTF-8.
Utf8Len(cp) ==
    IF cp < 128 THEN 1 ELSE IF cp < 2048 THEN 2 ELSE IF cp < 65536 THEN 3 ELSE 4

\* str::len(): the length in bytes.
RECURSIVE StrLen(_)
StrLen(str) == IF str = <<>> THEN 0 ELSE Utf8Len(Head(str)) + StrLen(Tail(str))

NoEvent == [none |-> TRUE]
KeyEvent(code, modifiers) == [none |-> FALSE, code |-> code, modifiers |-> modifiers]

key_to_crossterm_event(key_name, shift_active, ctrl_active) ==
    LET modifiers == (IF shift_active THEN {"SHIFT"} ELSE {})
                       \cup (IF ctrl_active THEN {"CONTROL"} ELSE {})
    IN  CASE key_name = KEY_ESC -> KeyEvent(<<"Esc">>, modifiers)
          [] key_name = KEY_TAB -> KeyEvent(<<"Tab">>, modifiers)
          [] key_name \in {KEY_SHIFT, KEY_CTRL} -> NoEvent
          [] key_name = KEY_UP -> KeyEvent(<<"Up">>, modifiers)
          [] key_name = KEY_DOWN -> KeyEvent(<<"Down">>, modifiers)
          [] key_name = KEY_LEFT -> KeyEvent(<<"Left">>, modifiers)
          [] key_name = KEY_RIGHT -> KeyEvent(<<"Right">>, modifiers)
          [] key_name = KEY_ENTER -> KeyEvent(<<"Enter">>, modifiers)
          [] key_name = KEY_SPACE -> KeyEvent(<<"Char", SPACE>>, modifiers)
          [] key_name = KEY_BACKSPACE -> KeyEvent(<<"Backspace">>, modifiers)
          [] key_name = KEY_DELETE -> KeyEvent(<<"Delete">>, modifiers)
          [] key_name = KEY_KEYBOARD -> NoEvent
          [] OTHER -> IF StrLen(key_name) = 1
                      THEN KeyEvent(<<"Char", Head(key_name)>>, modifiers)
                      ELSE NoEvent

\* The names with an arm of their own in the match.
NamedKeys ==
    {KEY_ESC, KEY_TAB, KEY_SHIFT, KEY_CTRL, KEY_UP, KEY_DOWN, KEY_LEFT, KEY_RIGHT,
     KEY_ENTER, KEY_SPACE, KEY_BACKSPACE, KEY_DELETE, KEY_KEYBOARD}

\* The names asked about: the named keys, "a", "1", U+00E9, U+4E2D, "F1",
\* "esc" and the empty name.
KeyNameInputs ==
    NamedKeys \cup {<<CH_a>>, <<CH_1>>, <<233>>, <<CH_CJK>>, <<70, 49>>,
                    <<101, 115, 99>>, <<>>}

KeyToCrossterm ==
    /\ pcall = NoPCall
    /\ \E key_name \in KeyNameInputs, shift_active \in BOOLEAN, ctrl_active \in BOOLEAN :
         pcall' = [op |-> "key_to_crossterm_event", key_name |-> key_name,
                   shift_active |-> shift_active, ctrl_active |-> ctrl_active,
                   ret |-> key_to_crossterm_event(key_name, shift_active, ctrl_active)]
    /\ UNCHANGED <<cacheVars, backendVars, kbdVars, rasterVars, loopVars, lockVars, softVars, widgetVars>>

\* ---- TouchEvent::to_terminal_coords, input.rs lines 47-52 ----
\* `as u16` truncates towards zero and saturates at u16::MAX; x and y are
\* pixel coordinates, fw and fh the font_width and font_height arguments.
U16_MAX == 65535

\* The mapping without the top offset.
to_terminal_coords_no_offset(x, y, fw, fh, top_offset_px) ==
    <<Min(x \div fw, U16_MAX), Min(y \div fh, U16_MAX)>>

to_terminal_coords(x, y, fw, fh, top_offset_px) ==
    <<Min(x \div fw, U16_MAX), Min(Max(y - top_offset_px, 0) \div fh, U16_MAX)>>

\* The frames a touch is mapped against: three columns, a window of three
\* rows of cells, and a top offset of nothing, a pixel, or a row and a pixel.
TouchFrames(r) ==
    {RasterCall(b, 3 * r.font_width * 3 * r.font_height * 4, 3 * r.font_width,
                3 * r.font_width, 3 * r.font_height, top, 0, TRUE) :
        b \in RasterBackends({3}) \ {RasterBackend(0, 0, <<>>)},
        top \in {0, 1, r.font_height + 1}}

\* The pixels of a frame a touch may fall on: those painted as the
\* background of a cell, with the cell, and those above the top offset.
TouchPixels(in, out) ==
    {[x |-> w.x, y |-> w.y, painted |-> TRUE, who |-> w.who,
      wide |-> \E c \in out.cells : c.tx = w.who[1] /\ c.ty = w.who[2] /\ c.wide] :
        w \in {v \in out.writes : v.layer = "bg"}}
    \cup
    {[x |-> x, y |-> y, painted |-> FALSE, who |-> <<>>, wide |-> FALSE] :
        x \in 0 .. in.window_width - 1, y \in 0 .. in.top_offset_px - 1}

ToTerminalCoords ==
    /\ pcall = NoPCall
    /\ frame = NoFrame
    /\ \E in \in TouchFrames(rasterizer) :
         \E out \in {render_to_surface_with_offset(cache, rasterizer, in.backend,
                        in.dest_len, in.stride, in.window_width, in.window_height,
                        in.top_offset_px, in.bottom_offset_px, in.overflow_checks)} :
           \E t \in TouchPixels(in, out) :
              pcall' = [op |-> "to_terminal_coords", top_offset_px |-> in.top_offset_px,
                        ret |-> to_terminal_coords(t.x, t.y, rasterizer.font_width,
                                    rasterizer.font_height, in.top_offset_px)] @@ t
    /\ UNCHANGED <<cacheVars, backendVars, kbdVars, rasterVars, loopVars, lockVars, softVars, widgetVars>>

(***************************************************************************)
(*                        THE GLOBAL MUTEXES                               *)
(*                                                                         *)
(* CHAR_CACHE, FONT_SYSTEM and SWASH_CACHE are std::sync::Mutex statics.   *)
(* Threads call render_char_cosmic, render_char_android, warm_cache and    *)
(* load_font_data; a step of a thread is one lock(), one drop of a guard   *)
(* or the code between two of them.  lock() waits until the mutex is free; *)
(* on a poisoned mutex it returns Err and the guard inside the error is    *)
(* dropped at once.  A panic while guards are held poisons their mutexes.  *)
(***************************************************************************)
Mutexes  == {"FONT_SYSTEM", "SWASH_CACHE", "CHAR_CACHE"}
NoThread == 0
Threads  == 1 .. NumThreads
LockFunctions == {"render_char_cosmic", "render_char_android", "warm_cache", "load_font_data"}

IdleThread == [fn |-> "idle", pc |-> "idle", left |-> 0, held |-> <<>>]

LocksFree ==
    /\ mutex = [m \in Mutexes |-> NoThread]
    /\ thr = [t \in Threads |-> IdleThread]

\* Where each function starts.
EntryPoint(fn) ==
    CASE fn = "render_char_cosmic"  -> "lookup_lock"
      [] fn = "warm_cache"          -> "lookup_lock"
      [] fn = "render_char_android" -> "a_lookup_lock"
      [] fn = "load_font_data"      -> "load_lock"

\* The lock() calls: the mutex each one asks for and where the thread goes
\* on with the guard.  Every Err arm leaves the function (or, for the
\* `if let Ok`, skips the block, which ends it as well).
LockPoints ==
    {"lookup_lock", "font_lock", "swash_lock", "put_lock", "len_lock", "load_lock",
     "a_lookup_lock", "a_put_lock"}

LockAt(pc) ==
    CASE pc \in {"lookup_lock", "put_lock", "len_lock", "a_lookup_lock", "a_put_lock"}
           -> "CHAR_CACHE"
      [] pc \in {"font_lock", "load_lock"} -> "FONT_SYSTEM"
      [] pc = "swash_lock" -> "SWASH_CACHE"

AfterLock(pc) ==
    CASE pc = "lookup_lock"   -> "lookup"
      [] pc = "font_lock"     -> "swash_lock"
      [] pc = "swash_lock"    -> "shape"
      [] pc = "put_lock"      -> "put"
      [] pc = "len_lock"      -> "len"
      [] pc = "load_lock"     -> "load"
      [] pc = "a_lookup_lock" -> "a_lookup"
      [] pc = "a_put_lock"    -> "a_put"

DropLast(held) == SubSeq(held, 1, Len(held) - 1)

\* The guards after the lookup block of render_char_cosmic on a miss, if the
\* cache guard lived to the end of the function.
lookup_block_keep(held) == held

\* The guards after the lookup block of render_char_cosmic, lines 183-194:
\* the cache guard is dropped at the end of the block.
lookup_block_end(held) == DropLast(held)

\* The owners of the mutexes once thread t holds exactly the guards held.
Owners(t, held) ==
    [m \in Mutexes |-> IF m \in Range(held) THEN t
                       ELSE IF mutex[m] = t THEN NoThread ELSE mutex[m]]

\* Thread t goes to pc holding held.
Goto(t, pc, held) ==
    /\ thr' = [thr EXCEPT ![t].pc = pc, ![t].held = held]
    /\ mutex' = Owners(t, held)

LockRest == <<cache, history, evicted, cacheRet, backendVars, kbdVars, rasterVars, pureVars, loopVars, softVars, widgetVars>>

\* A thread calls one of the functions; load_font_data with data of 100
\* bytes or less returns at once.
LockCall ==
    /\ \E t \in Threads, fn \in LockFunctions, long \in BOOLEAN :
         /\ thr[t].fn = "idle"
         /\ fn # "load_font_data" => long
         /\ thr' = [thr EXCEPT ![t] =
                      IF long
                      THEN [fn |-> fn, pc |-> EntryPoint(fn),
                            left |-> IF fn = "warm_cache" THEN MaxWarm ELSE 0,
                            held |-> <<>>]
                      ELSE IdleThread]
    /\ UNCHANGED <<mutex, poisoned, LockRest>>

\* lock(): the thread waits while another guard of the mutex lives.
LockAcquire ==
    /\ \E t \in Threads :
         /\ thr[t].pc \in LockPoints
         /\ mutex[LockAt(thr[t].pc)] = NoThread
         /\ IF LockAt(thr[t].pc) \in poisoned
            THEN Goto(t, "unwind", thr[t].held)
            ELSE Goto(t, AfterLock(thr[t].pc), Append(thr[t].held, LockAt(thr[t].pc)))
    /\ UNCHANGED <<poisoned, LockRest>>

\* The code between the lock() calls.
LockStep ==
    /\ \E t \in Threads, taken \in BOOLEAN :
         LET held == thr[t].held
         IN  CASE thr[t].pc = "lookup" ->
                    IF taken THEN Goto(t, "unwind", DropLast(held))
                    ELSE Goto(t, "font_lock", lookup_block_end(held))
               [] thr[t].pc = "shape" ->
                    Goto(t, IF taken THEN "put_lock" ELSE "unwind", held)
               [] thr[t].pc \in {"put", "len", "load", "a_put"} ->
                    taken /\ Goto(t, "unwind", DropLast(held))
               [] thr[t].pc = "a_lookup" ->
                    Goto(t, IF taken THEN "unwind" ELSE "a_jni", DropLast(held))
               [] thr[t].pc = "a_jni" ->
                    Goto(t, IF taken THEN "a_put_lock" ELSE "unwind", held)
               [] OTHER -> FALSE
    /\ UNCHANGED <<poisoned, LockRest>>

\* The end of a function: the guards still held are dropped, the last one
\* taken first; then the function returns, and warm_cache goes on with its
\* next character or with the lock() of its last lines.
LockReturn ==
    /\ \E t \in Threads :
         /\ thr[t].pc = "unwind"
         /\ IF thr[t].held # <<>>
            THEN Goto(t, "unwind", DropLast(thr[t].held))
            ELSE /\ thr' = [thr EXCEPT ![t] =
                              IF thr[t].left > 1
                              THEN [@ EXCEPT !.left = @ - 1, !.pc = "lookup_lock"]
                              ELSE IF thr[t].left = 1
                              THEN [@ EXCEPT !.left = 0, !.pc = "len_lock"]
                              ELSE IdleThread]
                 /\ mutex' = mutex
    /\ UNCHANGED <<poisoned, LockRest>>

\* The shaping panics: the guards of the thread are dropped in the unwinding
\* and their mutexes are poisoned.
LockPanic ==
    /\ \E t \in Threads :
         /\ thr[t].pc = "shape"
         /\ poisoned' = poisoned \cup Range(thr[t].held)
         /\ thr' = [thr EXCEPT ![t] = IdleThread]
         /\ mutex' = Owners(t, <<>>)
    /\ UNCHANGED LockRest

(***************************************************************************)
(*                        THE KEYBOARD WIDGET                              *)
(***************************************************************************)
\* ---- KeyboardState::default, widgets/keyboard.rs lines 43-54 ----
\* An Option<u16> is <<>> for None and <<v>> for Some(v).
WidgetNoCall == [op |-> "none"]

KeyboardStateDefault ==
    [pressed_key |-> NoKeyName, press_time |-> 0, shift_active |-> FALSE,
     ctrl_active |-> FALSE, row1_start_col |-> <<>>, row2_start_col |-> <<>>]

WidgetNew == kw = KeyboardStateDefault /\ kwcall = WidgetNoCall

\* The width of both rows, in columns.
WIDGET_KEYBOARD_WIDTH == 21

\* ---- KeyboardWidget::render, lines 177-256: the start columns it records ----
\* Layout::split of a row of the area with Length(keyboard_start_col),
\* Length(21), Min(0) puts the second chunk keyboard_start_col columns right
\* of the area's left edge; the chunks of a split are in buffer coordinates.
widget_render(state, a) ==
    LET keyboard_start_col == Max(a.width - WIDGET_KEYBOARD_WIDTH, 0) \div 2
        chunk_x            == a.x + keyboard_start_col
    IN  IF a.height < 2 THEN state
        ELSE [state EXCEPT !.row1_start_col = <<a.x + chunk_x>>,
                           !.row2_start_col = <<a.x + chunk_x>>]

\* ---- KeyboardWidget::handle_touch, lines 109-175 ----
\* The key of a column of row 1 and of row 2, relative to the start column.
widget_row1_key(relative_col) ==
    IF relative_col < 3 THEN "ESC"
    ELSE IF relative_col < 6 THEN "TAB"
    ELSE IF relative_col < 9 THEN "SHIFT"
    ELSE IF relative_col < 12 THEN "CTRL"
    ELSE IF relative_col < 15 THEN "UP"
    ELSE IF relative_col < 18 THEN "DELETE"
    ELSE "ENTER"

widget_row2_key(relative_col) ==
    IF relative_col >= 9 /\ relative_col < 12 THEN "LEFT"
    ELSE IF relative_col >= 12 /\ relative_col < 15 THEN "DOWN"
    ELSE IF relative_col >= 15 /\ relative_col < 18 THEN "RIGHT"
    ELSE IF relative_col >= 18 /\ relative_col < 21 THEN "KEYBOARD"
    ELSE NoKeyName

\* The key of a touch whose row relative to the keyboard is keyboard_row.
widget_key(state, col, keyboard_row) ==
    LET start == IF keyboard_row = 0 THEN state.row1_start_col ELSE state.row2_start_col
    IN  IF keyboard_row \notin {0, 1} \/ start = <<>> THEN NoKeyName
        ELSE IF col < start[1] \/ col >= start[1] + WIDGET_KEYBOARD_WIDTH THEN NoKeyName
        ELSE IF keyboard_row = 0 THEN widget_row1_key(col - start[1])
        ELSE widget_row2_key(col - start[1])

\* keyboard_row = row.saturating_sub(keyboard_start_row), line 112.
widget_keyboard_row(row, keyboard_start_row) == Max(row - keyboard_start_row, 0)

\* The key returned and the state left, pressed at instant t.
widget_handle_touch(state, col, row, keyboard_start_row, t) ==
    LET key == widget_key(state, col, widget_keyboard_row(row, keyboard_start_row))
    IN  [key   |-> key,
         state |-> IF key = NoKeyName THEN state
                   ELSE [state EXCEPT !.pressed_key = key, !.press_time = t]]

\* The areas the widget is rendered into and the touches asked about.
WidgetAreas ==
    {[x |-> 0, y |-> 4, width |-> 21, height |-> 2],
     [x |-> 0, y |-> 4, width |-> 29, height |-> 2],
     [x |-> 2, y |-> 4, width |-> 21, height |-> 2],
     [x |-> 0, y |-> 5, width |-> 29, height |-> 1]}
WidgetCols == {0, 3, 4, 13, 24, 25, 40}
WidgetRows == {0, 3, 4, 5, 6}
WidgetStartRows == {4}

WidgetRender ==
    /\ \E a \in WidgetAreas :
         /\ kw' = widget_render(kw, a)
         /\ kwcall' = [op |-> "render", area |-> a]
    /\ UNCHANGED <<cacheVars, backendVars, kbdVars, rasterVars, pureVars, loopVars, lockVars, softVars>>

WidgetTouch ==
    /\ \E col \in WidgetCols, row \in WidgetRows, keyboard_start_row \in WidgetStartRows,
          t \in 1 .. MaxClock :
         \E out \in {widget_handle_touch(kw, col, row, keyboard_start_row, t)} :
            /\ kw' = out.state
            /\ kwcall' = [op |-> "handle_touch", col |-> col, row |-> row,
                          keyboard_start_row |-> keyboard_start_row, before |-> kw,
                          ret |-> out.key]
    /\ UNCHANGED <<cacheVars, backendVars, kbdVars, rasterVars, pureVars, loopVars, lockVars, softVars>>

\* KeyboardState::clear_pressed, lines 62-66.
WidgetClearPressed ==
    /\ kw.pressed_key # NoKeyName
    /\ kw' = [kw EXCEPT !.pressed_key = NoKeyName, !.press_time = 0]
    /\ kwcall' = [op |-> "clear_pressed"]
    /\ UNCHANGED <<cacheVars, backendVars, kbdVars, rasterVars, pureVars, loopVars, lockVars, softVars>>

(***************************************************************************)
(*                      SOFT KEYBOARD TRACKING                             *)
(*                                                                         *)
(* keyboard.rs keeps four SeqCst atomics.  The main loop reads them in     *)
(* process_input_event (a Back key), in its check of the changed flag and  *)
(* in detect_keyboard_visibility (a resize event); the KEYBOARD button     *)
(* spawns a thread that runs show_soft_keyboard.  A step of a thread is    *)
(* one load, store or swap of an atomic.  The ghost sg numbers the stores  *)
(* of KEYBOARD_VISIBLE_HEIGHT and remembers, for the flag, the store of    *)
(* the notification that raised it, and whether SOFT_KEYBOARD_VISIBLE was  *)
(* last written by a programmatic show or hide.                            *)
(***************************************************************************)
\* The window heights Android gives: the full screen, the screen with a
\* small bar and the screen above the soft keyboard.
WindowHeights == {600, 940, 1000}

SoftThreads == {"main", "worker"}

NoOut == [op |-> "none"]

\* A thread outside every function of keyboard.rs.
SoftIdle(pc) ==
    [pc |-> pc, visible |-> FALSE, h |-> 0, screen |-> 0, prev |-> 0, st |-> FALSE,
     stamp |-> 0, raised |-> FALSE, opt |-> FALSE, out |-> NoOut]

\* The statics of keyboard.rs lines 7-16, no window, no thread in keyboard.rs.
SoftNew ==
    /\ kv = [changed |-> FALSE, visible_height |-> 0, soft_visible |-> FALSE,
             previous_height |-> 0]
    /\ sg = [clock |-> 0, hstamp |-> 0, fstamp |-> 0, fkind |-> "none", pending |-> 0,
             events |-> 0, optimistic |-> FALSE]
    /\ sk = [th \in SoftThreads |-> SoftIdle(IF th = "main" THEN "loop" ELSE "idle")]
    /\ sw = [height |-> 0, height_px |-> 0, visible_height_px |-> 0]

SoftRest == <<cacheVars, backendVars, kbdVars, rasterVars, pureVars, loopVars, lockVars, widgetVars>>

\* ---- ghost updates that go with a store ----
\* KEYBOARD_VISIBLE_HEIGHT.store: the store gets the next number.
StoreHeight(g) == [g EXCEPT !.clock = @ + 1, !.hstamp = g.clock + 1]

\* KEYBOARD_VISIBILITY_CHANGED.store(true) by a notification whose own
\* height store has number stamp (0: none yet); kind tells whether the
\* notification is one that stores a height.
RaiseFlag(g, stamp, kind) ==
    [g EXCEPT !.fstamp = stamp, !.fkind = kind, !.pending = @ + 1]

\* ---- the Android key codes the model sends ----
KeyCodes == {"Back", "Enter", "VolumeUp"}
KeyActions == {"Down", "Up"}

\* android_keycode_to_event, ratatui-android input.rs lines 128-224, on the
\* key codes above with no meta state: Back and VolumeUp are unknown to it.
android_keycode_to_event(key_code) ==
    IF key_code = "Enter" THEN <<[code |-> "Enter", modifiers |-> {}]>> ELSE <<>>

\* map_android_event on a key event, runtime/input.rs lines 26-34.
map_key_event(key_code, action) ==
    IF action = "Down" THEN android_keycode_to_event(key_code) ELSE <<>>

\* A process_input_event without the Back branch: every key event goes to
\* map_android_event.
process_key_event_generic(key_code, action, visible) ==
    [op |-> "process_input_event", key_code |-> key_code, action |-> action,
     visible |-> visible, hides |-> FALSE, mapped |-> TRUE,
     delivered |-> map_key_event(key_code, action), status |-> "Handled"]

\* process_input_event on a key event, mod.rs lines 340-390: what it does
\* given the value is_soft_keyboard_visible() loads.
process_key_event(key_code, action, visible) ==
    IF key_code = "Back"
    THEN IF visible
         THEN [op |-> "process_input_event", key_code |-> key_code, action |-> action,
               visible |-> visible, hides |-> action = "Down", mapped |-> FALSE,
               delivered |-> <<>>, status |-> "Handled"]
         ELSE [op |-> "process_input_event", key_code |-> key_code, action |-> action,
               visible |-> visible, hides |-> FALSE, mapped |-> FALSE,
               delivered |-> IF action = "Down"
                             THEN <<[code |-> "Esc", modifiers |-> {}]>> ELSE <<>>,
               status |-> "Handled"]
    ELSE [op |-> "process_input_event", key_code |-> key_code, action |-> action,
          visible |-> visible, hides |-> FALSE, mapped |-> TRUE,
          delivered |-> map_key_event(key_code, action), status |-> "Handled"]

\* ---- the main loop ----
\* InitWindow: Android provides the window; init_window, window.rs 42-48.
SoftInitWindow ==
    /\ sk["main"].pc = "loop"
    /\ sw.height = 0
    /\ \E h \in WindowHeights :
         sw' = [height |-> h, height_px |-> h, visible_height_px |-> h]
    /\ sk' = [sk EXCEPT !["main"].out = [op |-> "init_window"]]
    /\ UNCHANGED <<kv, sg, SoftRest>>

\* process_input_event on a key event; a Back-down with the keyboard
\* flagged visible goes on into hide_soft_keyboard.
SoftInput ==
    /\ sk["main"].pc = "loop"
    /\ sg.events < MaxSoftEvents
    /\ \E key_code \in KeyCodes, action \in KeyActions :
         \E out \in {process_key_event(key_code, action, kv.soft_visible)} :
            sk' = [sk EXCEPT !["main"] =
                     [SoftIdle(IF out.hides THEN "jni" ELSE "loop") EXCEPT !.out = out]]
    /\ sg' = [sg EXCEPT !.events = @ + 1]
    /\ UNCHANGED <<kv, sw, SoftRest>>

\* A touch on the KEYBOARD button, mod.rs lines 316-320: the thread spawned
\* runs show_soft_keyboard.
SoftSpawn ==
    /\ sk["main"].pc = "loop"
    /\ sk["worker"].pc = "idle"
    /\ sw.height > 0
    /\ sg.events < MaxSoftEvents
    /\ sk' = [sk EXCEPT !["worker"] = [SoftIdle("jni") EXCEPT !.visible = TRUE],
                        !["main"].out = [op |-> "spawn"]]
    /\ sg' = [sg EXCEPT !.events = @ + 1]
    /\ UNCHANGED <<kv, sw, SoftRest>>

\* check_keyboard_visibility_changed, keyboard.rs lines 88-90, in the main
\* loop, mod.rs line 213: a swap.
SoftCheck ==
    /\ sk["main"].pc = "loop"
    /\ kv' = [kv EXCEPT !.changed = FALSE]
    /\ sg' = [sg EXCEPT !.pending = 0]
    /\ sk' = [sk EXCEPT !["main"] =
                IF kv.changed
                THEN [SoftIdle("get") EXCEPT
                        !.out = [op |-> "check", ret |-> TRUE, fstamp |-> sg.fstamp,
                                 fkind |-> sg.fkind, pending |-> sg.pending]]
                ELSE [SoftIdle("loop") EXCEPT !.out = [op |-> "check", ret |-> FALSE]]]
    /\ UNCHANGED <<sw, SoftRest>>

\* get_visible_height and the lines after it, mod.rs lines 214-222.
SoftGet ==
    /\ sk["main"].pc = "get"
    /\ sw' = [sw EXCEPT !.visible_height_px = kv.visible_height]
    /\ sk' = [sk EXCEPT !["main"] =
                [SoftIdle("loop") EXCEPT
                   !.out = [op |-> "get_visible_height", ret |-> kv.visible_height,
                            hstamp |-> sg.hstamp, fstamp |-> sk["main"].out.fstamp,
                            fkind |-> sk["main"].out.fkind]]]
    /\ UNCHANGED <<kv, sg, SoftRest>>

\* WindowResized, ContentRectChanged or ConfigChanged with a window of a new
\* height, lifecycle.rs lines 129-148: the arguments of
\* detect_keyboard_visibility.
SoftResized ==
    /\ sk["main"].pc = "loop"
    /\ sw.height > 0
    /\ sg.events < MaxSoftEvents
    /\ \E h \in WindowHeights \ {sw.height} :
         /\ sw' = [sw EXCEPT !.height = h]
         /\ sk' = [sk EXCEPT !["main"] =
                     [SoftIdle("d_prev") EXCEPT !.h = h, !.screen = Max(sw.height_px, h)]]
    /\ sg' = [sg EXCEPT !.events = @ + 1]
    /\ UNCHANGED <<kv, SoftRest>>

\* (screen_height as f32 * 0.15) as u32, then .max(100), line 42-44.
detect_threshold(screen_height) == Max((screen_height * 15) \div 100, 100)

height_diff(current_height, prev_height) ==
    IF current_height < prev_height THEN prev_height - current_height
    ELSE current_height - prev_height

\* height_ratio < 0.85, lines 67-68.
likely_visible(current_height, screen_height) == current_height * 100 < 85 * screen_height

\* Where detect_keyboard_visibility goes once it has loaded prev_height and
\* current_state, lines 27-70.
detect_branch(t) ==
    IF t.prev = 0 THEN "d_i1"
    ELSE IF height_diff(t.h, t.prev) > detect_threshold(t.screen)
    THEN IF t.st # (t.h < t.prev) THEN "d_s1" ELSE "d_p"
    ELSE IF t.st # likely_visible(t.h, t.screen) /\ height_diff(t.h, t.prev) > 50
    THEN "d_m1" ELSE "d_p"

\* detect_keyboard_visibility on the main thread, one atomic at a step, and
\* handle_window_resize after it.
SoftDetect ==
    LET t == sk["main"]
        To(pc) == [t EXCEPT !.pc = pc]
    IN  CASE t.pc = "d_prev" ->
               /\ sk' = [sk EXCEPT !["main"] = [To("d_state") EXCEPT !.prev = kv.previous_height]]
               /\ UNCHANGED <<kv, sg, sw, SoftRest>>
          [] t.pc = "d_state" ->
               /\ \E u \in {[t EXCEPT !.st = kv.soft_visible, !.opt = sg.optimistic]} :
                    sk' = [sk EXCEPT !["main"] = [u EXCEPT !.pc = detect_branch(u)]]
               /\ UNCHANGED <<kv, sg, sw, SoftRest>>
          [] t.pc = "d_i1" ->
               /\ kv' = [kv EXCEPT !.previous_height = t.h]
               /\ sk' = [sk EXCEPT !["main"] = To("d_i2")]
               /\ UNCHANGED <<sg, sw, SoftRest>>
          [] t.pc = "d_i2" ->
               /\ kv' = [kv EXCEPT !.visible_height = t.h]
               /\ sg' = StoreHeight(sg)
               /\ sk' = [sk EXCEPT !["main"] = To("d_i3")]
               /\ UNCHANGED <<sw, SoftRest>>
          [] t.pc = "d_i3" ->
               /\ kv' = [kv EXCEPT !.soft_visible = FALSE]
               /\ sg' = [sg EXCEPT !.optimistic = FALSE]
               /\ sk' = [sk EXCEPT !["main"] = To("d_done")]
               /\ UNCHANGED <<sw, SoftRest>>
          [] t.pc \in {"d_s1", "d_m2"} ->
               /\ kv' = [kv EXCEPT !.visible_height = t.h]
               /\ sg' = StoreHeight(sg)
               /\ sk' = [sk EXCEPT !["main"] =
                           [To(IF t.pc = "d_s1" THEN "d_s2" ELSE "d_m3") EXCEPT
                              !.stamp = sg.clock + 1]]
               /\ UNCHANGED <<sw, SoftRest>>
          [] t.pc = "d_s2" ->
               /\ kv' = [kv EXCEPT !.soft_visible = t.h < t.prev]
               /\ sg' = [sg EXCEPT !.optimistic = FALSE]
               /\ sk' = [sk EXCEPT !["main"] = To("d_s3")]
               /\ UNCHANGED <<sw, SoftRest>>
          [] t.pc = "d_m1" ->
               /\ kv' = [kv EXCEPT !.soft_visible = likely_visible(t.h, t.screen)]
               /\ sg' = [sg EXCEPT !.optimistic = FALSE]
               /\ sk' = [sk EXCEPT !["main"] = To("d_m2")]
               /\ UNCHANGED <<sw, SoftRest>>
          [] t.pc \in {"d_s3", "d_m3"} ->
               /\ kv' = [kv EXCEPT !.changed = TRUE]
               /\ sg' = RaiseFlag(sg, t.stamp, "stores")
               /\ sk' = [sk EXCEPT !["main"] = [To("d_p") EXCEPT !.raised = TRUE]]
               /\ UNCHANGED <<sw, SoftRest>>
          [] t.pc = "d_p" ->
               /\ kv' = [kv EXCEPT !.previous_height = t.h]
               /\ sk' = [sk EXCEPT !["main"] = To("d_done")]
               /\ UNCHANGED <<sg, sw, SoftRest>>
          [] t.pc = "d_done" ->
               \* handle_window_resize, mod.rs lines 439-457
               /\ sw' = [sw EXCEPT !.height_px = sw.height,
                                   !.visible_height_px = IF @ = 0 THEN sw.height ELSE @]
               /\ sk' = [sk EXCEPT !["main"] =
                           [SoftIdle("loop") EXCEPT
                              !.out = [op |-> "detect_keyboard_visibility",
                                       raised |-> t.raised]]]
               /\ UNCHANGED <<kv, sg, SoftRest>>
          [] OTHER -> FALSE

\* set_keyboard_visible raising the flag before it stores the height.
set_keyboard_visible_flag_first(pc) ==
    CASE pc = "swap" -> "st_flag" [] pc = "st_flag" -> "st_vh" [] pc = "st_vh" -> "st_ph"
      [] pc = "st_ph" -> "ret"

\* The order of the stores of set_keyboard_visible, lines 106-119.
set_keyboard_visible_next(pc) ==
    CASE pc = "swap" -> "st_vh" [] pc = "st_vh" -> "st_flag" [] pc = "st_flag" -> "st_ph"
      [] pc = "st_ph" -> "ret"

\* show_soft_keyboard on the spawned thread and hide_soft_keyboard on the
\* main thread, lines 125-215: the JNI call succeeds or fails, then
\* set_keyboard_visible_state or set_keyboard_hidden_state, one atomic at a
\* step.
SoftSetState ==
    \E th \in SoftThreads, ok \in BOOLEAN :
        LET t == sk[th]
            To(pc) == [t EXCEPT !.pc = pc]
            home == IF th = "main" THEN [SoftIdle("loop") EXCEPT !.out = t.out]
                    ELSE SoftIdle("idle")
            Ret(pc) == IF pc = "ret" THEN home ELSE To(pc)
        IN  CASE t.pc = "jni" ->
                   /\ sk' = [sk EXCEPT ![th] = IF ok THEN To("ld_vh") ELSE home]
                   /\ UNCHANGED <<kv, sg, sw, SoftRest>>
              [] t.pc = "ld_vh" ->
                   /\ ok
                   /\ sk' = [sk EXCEPT ![th] = [To("ld_ph") EXCEPT !.h = kv.visible_height]]
                   /\ UNCHANGED <<kv, sg, sw, SoftRest>>
              [] t.pc = "ld_ph" ->
                   /\ ok
                   /\ \E h \in {Max(t.h, kv.previous_height)} :
                        sk' = [sk EXCEPT ![th] =
                                 [To(IF h > 0 THEN "swap" ELSE "fb_swap") EXCEPT !.h = h]]
                   /\ UNCHANGED <<kv, sg, sw, SoftRest>>
              [] t.pc \in {"swap", "fb_swap"} ->
                   /\ ok
                   /\ kv' = [kv EXCEPT !.soft_visible = t.visible]
                   /\ sg' = [sg EXCEPT !.optimistic = t.visible]
                   /\ sk' = [sk EXCEPT ![th] =
                               IF kv.soft_visible = t.visible THEN home
                               ELSE IF t.pc = "swap" THEN To(set_keyboard_visible_next("swap"))
                               ELSE To("fb_flag")]
                   /\ UNCHANGED <<sw, SoftRest>>
              [] t.pc = "st_vh" ->
                   /\ ok
                   /\ kv' = [kv EXCEPT !.visible_height = t.h]
                   /\ sg' = StoreHeight(sg)
                   /\ sk' = [sk EXCEPT ![th] =
                               [Ret(set_keyboard_visible_next("st_vh")) EXCEPT
                                  !.stamp = sg.clock + 1]]
                   /\ UNCHANGED <<sw, SoftRest>>
              [] t.pc = "st_flag" ->
                   /\ ok
                   /\ kv' = [kv EXCEPT !.changed = TRUE]
                   /\ sg' = RaiseFlag(sg, t.stamp, "stores")
                   /\ sk' = [sk EXCEPT ![th] = Ret(set_keyboard_visible_next("st_flag"))]
                   /\ UNCHANGED <<sw, SoftRest>>
              [] t.pc = "st_ph" ->
                   /\ ok
                   /\ kv' = [kv EXCEPT !.previous_height = t.h]
                   /\ sk' = [sk EXCEPT ![th] = Ret(set_keyboard_visible_next("st_ph"))]
                   /\ UNCHANGED <<sg, sw, SoftRest>>
              [] t.pc = "fb_flag" ->
                   /\ ok
                   /\ kv' = [kv EXCEPT !.changed = TRUE]
                   /\ sg' = RaiseFlag(sg, 0, "fallback")
                   /\ sk' = [sk EXCEPT ![th] = home]
                   /\ UNCHANGED <<sw, SoftRest>>
              [] OTHER -> FALSE

(***************************************************************************)
(*                             THE RUNTIME                                 *)
(*                                                                         *)
(* async_main keeps an AppState and loops: input events, lifecycle events  *)
(* and a frame.  Android creates and destroys the native window; the       *)
(* WindowManager of the AppState holds the handle init_window stored.      *)
(* Windows are numbered in the order Android creates them.  The size of    *)
(* the terminal backend is kept as backend: its columns and rows, 1 x 1    *)
(* for the AndroidBackend::new(1, 1) the runtime starts with.              *)
(***************************************************************************)
NoWindow == 0
DIRECT_KEYBOARD_HEIGHT_PX == 120
NAV_BAR_HEIGHT_PX == 48
WindowSize == [width |-> 1080, height |-> 600]

\* ---- DirectKeyboardState, lines 25-61; Instant::now() is the clock ----
\* A set_pressed that also releases the modifiers.
set_pressed_one_shot(state, key, t) ==
    [state EXCEPT !.pressed_key = key, !.press_time = t,
                  !.shift_active = FALSE, !.ctrl_active = FALSE]

set_pressed(state, key, t) == [state EXCEPT !.pressed_key = key, !.press_time = t]

clear_pressed(state) == [state EXCEPT !.pressed_key = NoKeyName, !.press_time = NoTime]

toggle_shift(state) == [state EXCEPT !.shift_active = ~@]

toggle_ctrl(state) == [state EXCEPT !.ctrl_active = ~@]

should_show_feedback(state, t) ==
    IF state.press_time # NoTime THEN t - state.press_time < 200 ELSE FALSE

RuntimeNoCall == [op |-> "none"]

\* The AppState async_main builds, lines 153-170, and no window yet.
RuntimeNew ==
    /\ PureInit
    /\ now = 0
    /\ app = [native_window |-> NoWindow, needs_draw |-> TRUE, should_quit |-> FALSE,
              backend |-> <<1, 1>>, visible_height_px |-> 0]
    /\ os = [window |-> NoWindow, created |-> 0, height |-> 0]
    /\ rcall = RuntimeNoCall
    /\ LocksFree
    /\ SoftNew
    /\ WidgetNew

RuntimeRest == <<cacheVars, backendVars, kcall, rasterVars, pureVars, lockVars, softVars, widgetVars>>

\* The keys a caller of set_pressed names.
PressedKeys == {"ESC", "SHIFT"}

SetPressed ==
    /\ \E key \in PressedKeys :
         /\ kbd' = set_pressed(kbd, key, now)
         /\ rcall' = [op |-> "set_pressed", key |-> key]
    /\ UNCHANGED <<now, app, os, RuntimeRest>>

ClearPressed ==
    /\ kbd' = clear_pressed(kbd)
    /\ rcall' = [op |-> "clear_pressed"]
    /\ UNCHANGED <<now, app, os, RuntimeRest>>

ToggleShift ==
    /\ kbd' = toggle_shift(kbd)
    /\ rcall' = [op |-> "toggle_shift"]
    /\ UNCHANGED <<now, app, os, RuntimeRest>>

ToggleCtrl ==
    /\ kbd' = toggle_ctrl(kbd)
    /\ rcall' = [op |-> "toggle_ctrl"]
    /\ UNCHANGED <<now, app, os, RuntimeRest>>

ShouldShowFeedback ==
    /\ rcall' = [op |-> "should_show_feedback", ret |-> should_show_feedback(kbd, now)]
    /\ UNCHANGED <<kbd, now, app, os, RuntimeRest>>

\* Time passes, 100 ms at a step.
TimePasses ==
    /\ now < MaxClock * 100
    /\ now' = now + 100
    /\ rcall' = [op |-> "time"]
    /\ UNCHANGED <<kbd, app, os, RuntimeRest>>

\* ---- process_input_event, a MotionAction::Down, lines 290-335 ----
\* keyboard_y and button_height as the runtime computes them, lines 300-301
\* and rendering.rs lines 83-84.
runtime_keyboard_y(window_height) ==
    Max(window_height - (DIRECT_KEYBOARD_HEIGHT_PX + NAV_BAR_HEIGHT_PX), 0)

runtime_button_height == Max(Max(DIRECT_KEYBOARD_HEIGHT_PX \div 2 - 4, 0), 20)

\* The key a touch falls on and the keyboard state it leaves.
process_touch(state, t, window, touch_x, touch_y) ==
    LET window_width  == IF window = NoWindow THEN 0 ELSE WindowSize.width
        window_height == IF window = NoWindow THEN 0 ELSE os.height
        keyboard_y    == runtime_keyboard_y(window_height)
        key == IF touch_y >= keyboard_y /\ window_width > 0
               THEN handle_touch(touch_x, touch_y, window_width, keyboard_y,
                                 runtime_button_height)
               ELSE NoKeyName
        pressed == set_pressed(state, key, t)
    IN  [key   |-> key,
         state |-> IF key = NoKeyName THEN state
                   ELSE IF key = "SHIFT" THEN toggle_shift(pressed)
                   ELSE IF key = "CTRL" THEN toggle_ctrl(pressed)
                   ELSE pressed]

\* ---- keyboard_key_to_event, runtime/input.rs lines 91-107 ----
\* The event of a key of the on-screen keyboard, <<>> for None: the modifiers
\* are KeyModifiers::empty() whatever the toggles are.
keyboard_key_to_event(key_name) ==
    CASE key_name = "ESC" -> <<[code |-> "Esc", modifiers |-> {}]>>
      [] key_name = "TAB" -> <<[code |-> "Tab", modifiers |-> {}]>>
      [] key_name \in {"SHIFT", "CTRL", "KEYBOARD"} -> <<>>
      [] key_name = "UP" -> <<[code |-> "Up", modifiers |-> {}]>>
      [] key_name = "DOWN" -> <<[code |-> "Down", modifiers |-> {}]>>
      [] key_name = "LEFT" -> <<[code |-> "Left", modifiers |-> {}]>>
      [] key_name = "RIGHT" -> <<[code |-> "Right", modifiers |-> {}]>>
      [] key_name = "ENTER" -> <<[code |-> "Enter", modifiers |-> {}]>>
      [] key_name = "SPACE" -> <<[code |-> "Char ", modifiers |-> {}]>>
      [] key_name = "BACKSPACE" -> <<[code |-> "Backspace", modifiers |-> {}]>>
      [] key_name = "DELETE" -> <<[code |-> "Delete", modifiers |-> {}]>>
      [] OTHER -> <<>>

\* The event process_input_event hands to the app for the key touched,
\* mod.rs lines 308-331.
delivered_key_event(key) ==
    IF key \in {NoKeyName, "SHIFT", "CTRL", "KEYBOARD"} THEN <<>>
    ELSE keyboard_key_to_event(key)

TouchXs == {20, 324, 476}
TouchYs == {100, 440, 500}

ProcessInputEvent ==
    /\ ~app.should_quit
    /\ \E touch_x \in TouchXs, touch_y \in TouchYs :
         \E out \in {process_touch(kbd, now, app.native_window, touch_x, touch_y)} :
            /\ kbd' = out.state
            /\ app' = [app EXCEPT !.needs_draw = @ \/ out.key # NoKeyName]
            /\ rcall' = [op |-> "process_input_event", key |-> out.key,
                         delivered |-> delivered_key_event(out.key)]
    /\ UNCHANGED <<now, os, RuntimeRest>>

\* ---- resize_backend, mod.rs lines 407-437 ----
\* The rasterizer of the runtime: Rasterizer::new(DEFAULT_FONT_SIZE).
RUNTIME_FONT_SIZE == 480
STATUS_BAR_HEIGHT_PX == 48

resize_backend(state, window_height) ==
    LET fw == font_width(RUNTIME_FONT_SIZE)
        fh == font_height(RUNTIME_FONT_SIZE)
        height_px == IF state.visible_height_px > 0 THEN state.visible_height_px
                     ELSE window_height
        cols == Min(WindowSize.width \div fw, U16_MAX)
        total_rows == Min(height_px \div fh, U16_MAX)
        status_bar_rows == Max(CeilDiv(STATUS_BAR_HEIGHT_PX, fh), 1)
        top_offset_rows == Min(status_bar_rows, total_rows \div 4)
        keyboard_rows == Max(CeilDiv(DIRECT_KEYBOARD_HEIGHT_PX, fh), 2)
        nav_bar_rows == Max(CeilDiv(NAV_BAR_HEIGHT_PX, fh), 1)
        bottom_offset_rows == keyboard_rows + nav_bar_rows
        available_rows == Max(Max(total_rows - top_offset_rows, 0) - bottom_offset_rows, 0)
    IN  IF cols > 0 /\ available_rows > 0
        THEN [state EXCEPT !.backend = <<cols, available_rows>>]
        ELSE state

\* handle_window_resize, mod.rs lines 439-458.
handle_window_resize(state, window_height) ==
    IF state.native_window # NoWindow
    THEN [resize_backend([state EXCEPT !.visible_height_px =
                                          IF @ = 0 THEN window_height ELSE @],
                         window_height)
            EXCEPT !.needs_draw = TRUE]
    ELSE state

\* ---- handle_lifecycle, lifecycle.rs lines 80-158 ----
MainEvents ==
    {"InitWindow", "TerminateWindow", "SaveState", "Resume", "Pause", "LostFocus",
     "GainedFocus", "ContentRectChanged", "WindowResized", "ConfigChanged", "Destroy"}

ResizeEvents == {"ContentRectChanged", "WindowResized", "ConfigChanged"}

\* The heights of the window Android gives: the full screen and the strip
\* left in split screen or in landscape above a soft keyboard.
RuntimeHeights == {240, WindowSize.height}

\* The native window Android provides once the event has been handled:
\* InitWindow comes with a new window, TerminateWindow takes it away, a
\* resize event comes with the window at its new height.
os_after(event, window_height) ==
    CASE event = "InitWindow" ->
           [window |-> os.created + 1, created |-> os.created + 1,
            height |-> window_height]
      [] event = "TerminateWindow" -> [os EXCEPT !.window = NoWindow]
      [] event \in ResizeEvents /\ os.window # NoWindow ->
           [os EXCEPT !.height = window_height]
      [] OTHER -> os

handle_lifecycle(state, event, window, window_height) ==
    CASE event = "InitWindow" ->
           [resize_backend([state EXCEPT !.native_window = window,
                                         !.visible_height_px = window_height],
                           window_height)
              EXCEPT !.needs_draw = TRUE]
      [] event \in {"Resume", "GainedFocus"} -> [state EXCEPT !.needs_draw = TRUE]
      [] event \in ResizeEvents -> handle_window_resize(state, window_height)
      [] event = "Destroy" -> [state EXCEPT !.should_quit = TRUE]
      [] OTHER -> state

HandleLifecycle ==
    /\ ~app.should_quit
    /\ \E event \in MainEvents, window_height \in RuntimeHeights :
         /\ event \notin ResizeEvents \cup {"InitWindow"} => window_height = WindowSize.height
         /\ event = "InitWindow" => os.window = NoWindow /\ os.created < MaxWindows
         /\ event = "TerminateWindow" => os.window # NoWindow
         /\ \E after \in {os_after(event, window_height)} :
              /\ os' = after
              /\ app' = handle_lifecycle(app, event, os.created + 1, after.height)
         /\ rcall' = [op |-> "handle_lifecycle", event |-> event]
    /\ UNCHANGED <<kbd, now, RuntimeRest>>

\* ---- the frame of the main loop, mod.rs lines 252-267 ----
\* draw_tui ends with DirectKeyboard::render on the keyboard state: the
\* draw_button calls it makes.
Frame ==
    /\ ~app.should_quit
    /\ LET has_window == app.native_window # NoWindow
           small      == app.backend[1] <= 1 \/ app.backend[2] <= 1
           resizes    == app.needs_draw /\ has_window /\ small
           draws      == app.needs_draw /\ has_window /\ ~small
       IN  /\ app' = IF resizes THEN resize_backend(app, os.height)
                     ELSE IF draws THEN [app EXCEPT !.needs_draw = FALSE]
                     ELSE app
           /\ rcall' = [op |-> "frame", drew |-> draws,
                        window |-> app.native_window,
                        live |-> app.native_window = os.window,
                        buttons |-> IF draws
                                    THEN RenderButtons(kbd, WindowSize.width,
                                             runtime_keyboard_y(os.height),
                                             runtime_button_height)
                                    ELSE <<>>]
    /\ UNCHANGED <<kbd, now, os, RuntimeRest>>

(***************************************************************************)
(*                           SPECIFICATIONS                                *)
(***************************************************************************)
InitCache == CacheInit /\ BackendNew(0, 0) /\ KeyboardInit /\ RasterNone /\ RuntimeNew
NextCache == RenderCharCosmic \/ CacheGet \/ CachePut \/ CachePoison
SpecCache == InitCache /\ [][NextCache]_vars

InitBackend == CacheInit /\ BackendInit /\ KeyboardInit /\ RasterNone /\ RuntimeNew
NextBackend ==
    \/ BackendResize
    \/ BackendDraw
    \/ BackendClear
    \/ BackendClearRegion
    \/ BackendSetCursor
    \/ BackendGetCell
    \/ BackendReturn
SpecBackend == InitBackend /\ [][NextBackend]_vars

InitKeyboard == CacheInit /\ BackendNew(0, 0) /\ KeyboardInit /\ RasterNone /\ RuntimeNew
NextKeyboard == KeyboardRender \/ KeyboardTouch \/ KeyboardReturn
SpecKeyboard == InitKeyboard /\ [][NextKeyboard]_vars

InitSurface == CacheInit /\ BackendNew(0, 0) /\ KeyboardInit /\ RasterInit /\ RuntimeNew
NextSurface == RasterRender \/ RasterReturn \/ KeyboardRender \/ KeyboardReturn
SpecSurface == InitSurface /\ [][NextSurface]_vars

\* ---- map_android_event on a motion event, runtime/input.rs lines 35-85 ----
\* validate_coordinates, lines 110-112.
validate_coordinates(x, y, max_x, max_y) == x >= 0 /\ y >= 0 /\ x <= max_x /\ y <= max_y

\* The kind of mouse event of a motion action, lines 64-77; <<>> is the arm
\* that returns None.
motion_kind(action) ==
    CASE action \in {"Down", "PointerDown"} -> <<"Down">>
      [] action \in {"Up", "Cancel", "PointerUp"} -> <<"Up">>
      [] action = "Move" -> <<"Drag">>
      [] action \in {"HoverEnter", "HoverMove", "HoverExit"} -> <<"Moved">>
      [] OTHER -> <<>>

\* The event returned for the first pointer at pixel (x, y): <<>> is None.
\* Coordinates and font dimensions are whole numbers of pixels; on these the
\* f32 quotients truncate to the integer quotients.
map_android_event(action, x, y, fw, fh, top_offset_px, bottom_offset_px, window_height) ==
    LET adjusted_y    == Max(y - top_offset_px, 0)
        max_content_y == window_height - bottom_offset_px
        col           == Min(x \div fw, U16_MAX)
        row           == Min(adjusted_y \div fh, U16_MAX)
    IN  IF fw <= 0 \/ fh <= 0 THEN <<>>
        ELSE IF ~validate_coordinates(x, y, window_height, window_height) THEN <<>>
        ELSE IF y >= max_content_y THEN <<>>
        ELSE IF col > 1000 \/ row > 1000 THEN <<>>
        ELSE IF motion_kind(action) = <<>> THEN <<>>
        ELSE <<[kind |-> motion_kind(action)[1], column |-> col, row |-> row,
                modifiers |-> {}]>>

\* The touches asked about: a portrait and a landscape window, the cell of
\* the runtime's rasterizer and a zero font width, offsets of whole rows.
MotionActions == {"Down", "Up", "Move", "Cancel", "HoverMove", "Scroll"}
InputWindows == {[width |-> 1080, height |-> 2400], [width |-> 2400, height |-> 1080]}
InputXs == {-1, 0, 500, 1079, 1080, 1081, 2399}
InputYs == {-1, 0, 47, 48, 900, 1080, 2300}
InputFonts == {<<font_width(RUNTIME_FONT_SIZE), font_height(RUNTIME_FONT_SIZE)>>,
               <<0, font_height(RUNTIME_FONT_SIZE)>>}
InputBottoms == {0, 4 * font_height(RUNTIME_FONT_SIZE)}

MapAndroidEvent ==
    /\ pcall = NoPCall
    /\ \E action \in MotionActions, w \in InputWindows, x \in InputXs, y \in InputYs,
          f \in InputFonts, top \in {0, font_height(RUNTIME_FONT_SIZE)},
          bottom \in InputBottoms :
         pcall' = [op |-> "map_android_event", action |-> action, window |-> w,
                   x |-> x, y |-> y, font_width |-> f[1], font_height |-> f[2],
                   top_offset_px |-> top, bottom_offset_px |-> bottom,
                   ret |-> map_android_event(action, x, y, f[1], f[2], top, bottom,
                                             w.height)]
    /\ UNCHANGED <<cacheVars, backendVars, kbdVars, rasterVars, loopVars, lockVars, softVars, widgetVars>>

InitPure == CacheInit /\ BackendNew(0, 0) /\ KeyboardInit /\ RasterNone /\ RuntimeNew
NextPure == Composite \/ KeyToCrossterm \/ PureReturn
SpecPure == InitPure /\ [][NextPure]_vars

InitInput == InitPure
NextInput == MapAndroidEvent \/ PureReturn
SpecInput == InitInput /\ [][NextInput]_vars

InitWidget == InitPure
NextWidget == WidgetRender \/ WidgetTouch \/ WidgetClearPressed
SpecWidget == InitWidget /\ [][NextWidget]_vars

InitRuntime == CacheInit /\ BackendNew(0, 0) /\ KeyboardInit /\ RasterNone /\ RuntimeNew
NextRuntime ==
    \/ SetPressed \/ ClearPressed \/ ToggleShift \/ ToggleCtrl \/ ShouldShowFeedback
    \/ TimePasses \/ ProcessInputEvent \/ HandleLifecycle \/ Frame
SpecRuntime == InitRuntime /\ [][NextRuntime]_vars

\* The main loop runs its frame step again and again while it has not quit.
SpecRuntimeFair == SpecRuntime /\ WF_vars(Frame)

InitTouch == InitSurface
NextTouch == ToTerminalCoords \/ PureReturn
SpecTouch == InitTouch /\ [][NextTouch]_vars

InitLocks == CacheInit /\ BackendNew(0, 0) /\ KeyboardInit /\ RasterNone /\ RuntimeNew
NextLocks == LockCall \/ LockAcquire \/ LockStep \/ LockReturn \/ LockPanic
SpecLocks == InitLocks /\ [][NextLocks]_vars

InitSoft == CacheInit /\ BackendNew(0, 0) /\ KeyboardInit /\ RasterNone /\ RuntimeNew
NextSoft ==
    \/ SoftInitWindow \/ SoftInput \/ SoftSpawn \/ SoftCheck \/ SoftGet
    \/ SoftResized \/ SoftDetect \/ SoftSetState
SpecSoft == InitSoft /\ [][NextSoft]_vars

(***************************************************************************)
(*                    PROPERTIES OF THE GLYPH CACHE                        *)
(***************************************************************************)
\* The position in the history of the last touch (put or get-hit) of key k.
LastUse(h, k) == CHOOSE i \in DOMAIN h : h[i] = k /\ \A j \in DOMAIN h : h[j] = k => j <= i

\* The least recently used key among those the cache holds.
LruKey(l, h) ==
    CHOOSE k \in CacheKeys(l) : \A o \in CacheKeys(l) : LastUse(h, k) <= LastUse(h, o)

\* C1: a put of a key that is not in the cache while the cache holds
\* CacheCap entries evicts exactly the least recently used entry (by get-hit
\* or put) and no other; a put into a cache with room, a replacing put and a
\* get evict nothing.
C1_EvictsExactlyLru ==
    [][LET k == cacheRet'.key
       IN  IF /\ Len(history') = Len(history) + 1
              /\ k \notin CacheKeys(cache)
              /\ Len(cache) = CacheCap
           THEN /\ evicted' = LruKey(cache, history)
                /\ CacheKeys(cache') = (CacheKeys(cache) \ {LruKey(cache, history)}) \cup {k}
           ELSE /\ evicted' = NoKey
                /\ CacheKeys(cache') =
                     CacheKeys(cache) \cup (IF Len(history') > Len(history) THEN {k} ELSE {})
      ]_vars

\* C1 witness: the first key ever touched was touched again, and is still in
\* the cache after a later put has evicted another key.
C1_Witness ==
    /\ evicted # NoKey
    /\ Len(history) >= 3
    /\ history[1] \in CacheKeys(cache)
    /\ evicted # history[1]
    /\ \E j \in 2 .. Len(history) - 1 : history[j] = history[1]

(***************************************************************************)
(*                     PROPERTIES OF THE BACKEND                           *)
(***************************************************************************)
AllBlank(cells) == \A i \in DOMAIN cells : cells[i] = DefaultCell

\* C2: resize(w, h) leaves a buffer of w x h cells, every one of them blank.
C2_ResizeLeavesBlank ==
    bcall.op = "resize" =>
        /\ width = bcall.w /\ height = bcall.h
        /\ area = Rect(bcall.w, bcall.h)
        /\ Len(content) = bcall.w * bcall.h
        /\ AllBlank(content)

\* The last entry of a draw call that targets (x, y), if there is one.
Targets(entries, x, y) == {i \in DOMAIN entries : entries[i].x = x /\ entries[i].y = y}
LastTarget(entries, x, y) ==
    CHOOSE i \in Targets(entries, x, y) : \A j \in Targets(entries, x, y) : j <= i

\* C3: draw returns Ok; every in-bounds coordinate an entry targets holds the
\* last such entry's cell, every other cell is unchanged, and so are the
\* dimensions and the cursor: an entry with x >= width or y >= height has no
\* effect.
C3_DrawFrame ==
    [][bcall'.op = "draw" =>
        /\ bcall'.ret = "Ok"
        /\ <<width', height', area', cursor'>> = <<width, height, area, cursor>>
        /\ Len(content') = Len(content)
        /\ \A x \in 0 .. width - 1, y \in 0 .. height - 1 :
             LET i == y * width + x + 1
             IN  content'[i] =
                   IF Targets(bcall'.entries, x, y) # {}
                   THEN bcall'.entries[LastTarget(bcall'.entries, x, y)].cell
                   ELSE content[i]
      ]_vars

\* C3 witness: a draw whose two entries target one in-bounds cell with
\* different cells; the cell holds the second entry's (blank) cell.
C3_Witness ==
    /\ bcall.op = "draw"
    /\ Len(bcall.entries) = 2
    /\ LET e1 == bcall.entries[1]
           e2 == bcall.entries[2]
       IN  /\ e1.x = e2.x /\ e1.y = e2.y
           /\ e1.x < width /\ e1.y < height
           /\ e1.cell # e2.cell
           /\ content[e2.y * width + e2.x + 1] = e2.cell
           /\ e2.cell = DefaultCell

\* C4: get_cell(x, y) and get_cell_mut(x, y) return a cell exactly when
\* x < width and y < height, in every state and for every (x, y), and never
\* panic.
C4_GetCellIffInBounds ==
    /\ \A x \in 0 .. MaxDim + 1, y \in 0 .. MaxDim + 1 :
         LET r == get_cell(width, height, area, content, x, y)
         IN  /\ ~r.panic
             /\ ~r.absent <=> (x < width /\ y < height)
    /\ bcall.op \in {"get_cell", "get_cell_mut"} =>
         /\ ~bcall.ret.panic
         /\ ~bcall.ret.absent <=> (bcall.x < width /\ bcall.y < height)

\* C4 witness: after a resize and a draw, a get_cell just past the last
\* column returned absent.
C4_Witness ==
    /\ bcall.op = "get_cell"
    /\ width > 0 /\ height > 0
    /\ bcall.x = width /\ bcall.y < height
    /\ bcall.ret.absent
    /\ ~AllBlank(content)

(***************************************************************************)
(*                      PROPERTIES OF THE RENDERING                        *)
(***************************************************************************)
\* The rectangle a draw_button call fills.
InRect(b, x, y) ==
    /\ x >= b.x /\ x < b.x + b.width
    /\ y >= b.y /\ y < b.y + b.height

\* C6: handle_touch returns key K exactly when the touch lies in the
\* rectangle render draws for the button of K under the same window width,
\* keyboard_y and button_height, and returns None when it lies in none.
C6_TouchMatchesRender ==
    kcall.op = "handle_touch" =>
        LET buttons == RenderButtons(kbd, kcall.window_width, kcall.keyboard_y,
                                     kcall.button_height)
            Hit(K)  == \E j \in DOMAIN buttons :
                          /\ buttons[j].key_name = K
                          /\ InRect(buttons[j], kcall.touch_x, kcall.touch_y)
        IN  /\ \A K \in KeyNames : (kcall.ret = K) <=> Hit(K)
            /\ (\A K \in KeyNames : ~Hit(K)) => kcall.ret = NoKeyName

\* A touch in a window so wide that the button width is capped returns a
\* key of the second row.
C6_Witness ==
    /\ kcall.op = "handle_touch"
    /\ kcall.ret = "KEYBOARD"
    /\ kcall.window_width \div SumUnits(row1) > render_button_width(kcall.window_width)

\* The rows of the window a frame may render cells into.
MaxRenderHeight(f) == Max(f.window_height - f.bottom_offset_px, 0)

\* C5: a rendered cell at column c whose leading character is wide has a
\* background span of two cell widths clipped to the window, nothing is
\* rendered for column c + 1 of its row, and rendering resumes at column
\* c + 2; the first column of a visible row is always rendered.
C5_WideCellSpansTwo ==
    (frame.op = "render" /\ ~frame.early) =>
        LET fw == rasterizer.font_width
            fh == rasterizer.font_height
            b  == frame.backend
            InWindow(tx) == tx < b.area.width /\ tx * fw < frame.window_width
        IN  /\ \A c \in frame.cells : c.wide =>
                 /\ c.px_start < frame.window_width
                 /\ c.cell_width = Min(2 * fw, frame.window_width - c.px_start)
                 /\ \A w \in frame.writes : (w.layer = "bg" /\ w.who = <<c.tx, c.ty>>) =>
                        w.x >= c.px_start /\ w.x < c.px_start + c.cell_width
                 /\ \A d \in frame.cells : ~(d.ty = c.ty /\ d.tx = c.tx + 1)
                 /\ \A d \in frame.chars : ~(d.ty = c.ty /\ d.tx = c.tx + 1)
                 /\ \A w \in frame.writes : w.who # <<c.tx + 1, c.ty>>
                 /\ (frame.panic = "none" /\ InWindow(c.tx + 2)) =>
                        \E d \in frame.cells : d.ty = c.ty /\ d.tx = c.tx + 2
            /\ \A ty \in 0 .. b.area.height - 1 :
                 (/\ frame.panic = "none"
                  /\ ty * fh + frame.top_offset_px < MaxRenderHeight(frame)
                  /\ InWindow(0)) =>
                     \E c \in frame.cells :
                        /\ c.tx = 0 /\ c.ty = ty
                        /\ c.wide = is_wide_char(b.content[BufferIndex(b.area, 0, ty)].symbol[1])

\* A wide cell at column 0 with its full background span, a skipped column 1
\* that holds a character, and column 2 rendered, cut by the window edge.
C5_Witness ==
    /\ frame.op = "render"
    /\ \E c \in frame.cells, d \in frame.cells :
         /\ c.wide /\ c.tx = 0 /\ d.ty = c.ty /\ d.tx = 2
         /\ frame.backend.content[BufferIndex(frame.backend.area, 1, c.ty)].symbol # <<SPACE>>
         /\ d.cell_width < rasterizer.font_width
         /\ \E w \in frame.writes : w.layer = "bg" /\ w.who = <<0, c.ty>>
                                    /\ w.x = 2 * rasterizer.font_width - 1

\* C7: every write of the rasterizer (background, glyph bitmap, fallback
\* block) and of DirectKeyboard::render goes to four bytes that all lie
\* inside dest.
C7_WritesInsideDest ==
    /\ frame.op = "render" =>
         \A w \in frame.writes : w.idx >= 0 /\ w.idx + 3 < frame.dest_len
    /\ kcall.op = "render" =>
         \A w \in kcall.writes : w.idx >= 0 /\ w.idx + 3 < kcall.dest_len

\* A frame that wrote pixels and was refused the last pixel of the first
\* row of one of its cells, which lies past the end of dest.
C7_Witness ==
    /\ frame.op = "render"
    /\ frame.panic = "none"
    /\ frame.writes # {}
    /\ \E c \in frame.cells :
         /\ c.px_start + c.cell_width <= frame.window_width
         /\ c.py_start < frame.window_height
         /\ (c.py_start * frame.stride + c.px_start + c.cell_width - 1) * 4 + 3
               >= frame.dest_len

\* C8: no call of render_to_surface_with_offset or DirectKeyboard::render
\* fails on its arithmetic, whatever the geometry.
C8_NoArithmeticFailure ==
    /\ frame.op = "render" => frame.panic = "none"
    /\ kcall.op = "render" => kcall.panic = "none"

\* C9: a call whose dest is shorter than stride * window_height * 4 returns
\* without a panic and without a write to dest.
C9_ShortDestUntouched ==
    (/\ frame.op = "render"
     /\ frame.dest_len < frame.stride * frame.window_height * 4) =>
        frame.panic = "none" /\ frame.writes = {}

\* C10: on a surface that holds the window, every rendered cell with a
\* character whose rectangle lies inside the window and the visible rows
\* has a pixel of its glyph or of the fallback block in that rectangle.
C10_NonBlankCellPainted ==
    (/\ frame.op = "render"
     /\ frame.panic = "none"
     /\ frame.stride >= frame.window_width
     /\ frame.dest_len >= frame.stride * frame.window_height * 4) =>
        \A c \in frame.cells :
            LET cell_w == rasterizer.font_width * (IF c.wide THEN 2 ELSE 1)
                cell_h == rasterizer.font_height
            IN  (/\ c.symbol # <<>>
                 /\ c.symbol[1] # SPACE
                 /\ c.px_start + cell_w <= frame.window_width
                 /\ c.py_start + cell_h <= MaxRenderHeight(frame)) =>
                    \E w \in frame.writes :
                        /\ w.layer \in {"glyph", "block"}
                        /\ w.who = <<c.tx, c.ty>>
                        /\ w.x >= c.px_start /\ w.x < c.px_start + cell_w
                        /\ w.y >= c.py_start /\ w.y < c.py_start + cell_h

(***************************************************************************)
(*                  PROPERTIES OF THE LOCKS AND THE KEY                    *)
(***************************************************************************)
\* C11: a render_char_cosmic call that finds the lock of the glyph cache
\* poisoned goes on as after a cache miss: when the font has a glyph for
\* the character, the call returns its shaped bitmap.
C11_PoisonedLockIsAMiss ==
    (/\ cacheRet.op = "render_char_cosmic"
     /\ "CHAR_CACHE" \in poisoned
     /\ cacheRet.glyph) => cacheRet.some

\* The entries of the cache list l stored for character c, a size whose
\* integer part is whole and the color rgba packed as A, R, G, B.
EntriesFor(l, c, whole, rgba) ==
    {i \in DOMAIN l :
        l[i].key = <<c, whole, <<rgba[4] * 256 + rgba[1], rgba[2] * 256 + rgba[3]>>>>}

\* C13: the key of a request is (code point, size truncated to an integer,
\* color packed as A<<24 | R<<16 | G<<8 | B): a request whose character,
\* truncated size and color the cache holds an entry for is served that
\* entry, whatever the fraction of its size; the colors requested have
\* pairwise distinct keys, so a bitmap served has the color asked for.
C13_KeyTruncatesSize ==
    [][(cacheRet'.op = "render_char_cosmic" /\ "CHAR_CACHE" \notin poisoned) =>
         LET q    == cacheRet'
             held == EntriesFor(cache, q.c, q.size \div 10, q.color)
         IN  /\ \A i \in held : q.some /\ q.ret = cache[i].val
             /\ \A other \in RequestColors \ {q.color} :
                   cache_key(q.c, q.size, other) # q.key
             /\ q.some => q.ret.color = q.color
      ]_vars

\* C13 witness: a request at size 6.9 was served the 4 x 6 bitmap shaped for
\* size 6.0 (its own would be 5 x 7).
C13_Witness ==
    /\ cacheRet.op = "render_char_cosmic"
    /\ cacheRet.c = CH_a
    /\ cacheRet.size = 69
    /\ cacheRet.some
    /\ cacheRet.ret.width = 4 /\ cacheRet.ret.height = 6

(***************************************************************************)
(*                   PROPERTIES OF THE PURE FUNCTIONS                      *)
(***************************************************************************)
\* C12: compositing a source pixel of alpha 255 sets the destination R, G
\* and B to the source R, G and B; a source pixel of alpha 0 leaves the
\* four destination bytes as they were; the destination alpha becomes
\* max(destination alpha, source alpha).
C12_CompositeOpaqueAndTransparent ==
    pcall.op = "composite" =>
        /\ pcall.src[4] = 255 =>
              \A i \in 1 .. 3 : pcall.out[i] = pcall.src[i]
        /\ pcall.src[4] = 0 => pcall.out = pcall.dest
        /\ pcall.out[4] = Max(pcall.dest[4], pcall.src[4])

\* An opaque source over a different, more transparent destination.
C12_Witness ==
    /\ pcall.op = "composite"
    /\ pcall.src[4] = 255
    /\ pcall.dest[4] < 255
    /\ \A i \in 1 .. 3 : pcall.dest[i] # pcall.src[i]
    /\ pcall.out = pcall.src

(***************************************************************************)
(*                     PROPERTIES OF THE RUNTIME                           *)
(***************************************************************************)
\* C14: shift_active (ctrl_active) changes only in toggle_shift
\* (toggle_ctrl) and in the runtime's handling of a touch on SHIFT (CTRL);
\* a toggle flips its own flag and nothing else; set_pressed and
\* clear_pressed leave both flags as they were; a touch on any other key
\* leaves the flag as it was.
C14_TogglesPersist ==
    [][LET q == rcall'
       IN  /\ kbd'.shift_active # kbd.shift_active =>
                \/ q.op = "toggle_shift"
                \/ q.op = "process_input_event" /\ q.key = "SHIFT"
           /\ kbd'.ctrl_active # kbd.ctrl_active =>
                \/ q.op = "toggle_ctrl"
                \/ q.op = "process_input_event" /\ q.key = "CTRL"
           /\ q.op = "toggle_shift" => kbd' = [kbd EXCEPT !.shift_active = ~@]
           /\ q.op = "toggle_ctrl" => kbd' = [kbd EXCEPT !.ctrl_active = ~@]
           /\ q.op \in {"set_pressed", "clear_pressed"} =>
                /\ kbd'.shift_active = kbd.shift_active
                /\ kbd'.ctrl_active = kbd.ctrl_active
           /\ (q.op = "process_input_event" /\ q.key # "SHIFT") =>
                kbd'.shift_active = kbd.shift_active
           /\ (q.op = "process_input_event" /\ q.key # "CTRL") =>
                kbd'.ctrl_active = kbd.ctrl_active
      ]_vars

\* C14 witness: a touch on ESC has been handled and both modifiers, toggled
\* on before it, are still on.
C14_Witness ==
    /\ rcall.op = "process_input_event"
    /\ rcall.key = "ESC"
    /\ kbd.pressed_key = "ESC"
    /\ kbd.shift_active
    /\ kbd.ctrl_active

\* The background draw_tui's keyboard render gave the button of a key.
DrawnBg(key_name) ==
    {rcall.buttons[i].bg : i \in {j \in DOMAIN rcall.buttons :
                                      rcall.buttons[j].key_name = key_name}}

\* C15: a frame drawn 200 ms or more after the press of a key gives that
\* key's button a background other than the pressed one, whether or not
\* the pressed key was cleared in between.
C15_HighlightExpires ==
    (/\ rcall.op = "frame"
     /\ rcall.drew
     /\ kbd.pressed_key # NoKeyName
     /\ now - kbd.press_time >= 200) => "bg_active" \notin DrawnBg(kbd.pressed_key)

\* C16: once Android has taken the native window away the WindowManager
\* holds no window, and no frame draws: draw_tui only ever gets the window
\* Android currently provides.
C16_NoDrawWithoutWindow ==
    /\ os.window = NoWindow => app.native_window = NoWindow
    /\ (rcall.op = "frame" /\ rcall.drew) => rcall.live

\* C17: clear() and clear_region(clear_type), for every clear type, leave
\* every cell of the buffer blank and leave the width, the height, the area
\* and the cursor of the backend as they were.
C17_ClearBlanksAll ==
    [][bcall'.op \in {"clear", "clear_region"} =>
         /\ AllBlank(content')
         /\ Len(content') = Len(content)
         /\ width' = width /\ height' = height /\ area' = area
         /\ cursor' = cursor
      ]_backendVars

\* C17 witness: a clear_region(AfterCursor) with the cursor at (1, 1) has
\* blanked a 2 x 2 buffer that held a drawn cell.
C17_Witness ==
    /\ bcall.op = "clear_region"
    /\ bcall.clear_type = "AfterCursor"
    /\ bcall.dirty
    /\ cursor = <<1, 1>>
    /\ width = 2 /\ height = 2
    /\ AllBlank(content)

\* C18: key_to_crossterm_event returns None for SHIFT, CTRL, KEYBOARD and
\* for every name of more than one character that has no arm of its own;
\* for every other named key and for every name of a single character it
\* returns a key event whose modifiers hold SHIFT exactly when shift_active
\* and CONTROL exactly when ctrl_active.
C18_KeyEventModifiers ==
    pcall.op = "key_to_crossterm_event" =>
        LET name == pcall.key_name
        IN  IF \/ name \in {KEY_SHIFT, KEY_CTRL, KEY_KEYBOARD}
               \/ Len(name) > 1 /\ name \notin NamedKeys
            THEN pcall.ret.none
            ELSE (Len(name) = 1 \/ name \in NamedKeys) =>
                   /\ ~pcall.ret.none
                   /\ ("SHIFT" \in pcall.ret.modifiers) = pcall.shift_active
                   /\ ("CONTROL" \in pcall.ret.modifiers) = pcall.ctrl_active

\* C19: a touch on a pixel that the frame painted as the background of the
\* narrow cell (c, r) is mapped to (c, r) by to_terminal_coords with the
\* rasterizer's font_width and font_height and the frame's top offset; a
\* touch above the top offset is mapped to row 0.
C19_TouchInvertsPlacement ==
    pcall.op = "to_terminal_coords" =>
        /\ (pcall.painted /\ ~pcall.wide) => pcall.ret = pcall.who
        /\ pcall.y < pcall.top_offset_px => pcall.ret[2] = 0

\* C19 witness: a pixel of the narrow cell (1, 1), below a top offset of a
\* row and a pixel, mapped to (1, 1); without the offset it would be in
\* row 2.
C19_Witness ==
    /\ pcall.op = "to_terminal_coords"
    /\ pcall.painted /\ ~pcall.wide
    /\ pcall.who = <<1, 1>>
    /\ pcall.top_offset_px = rasterizer.font_height + 1
    /\ pcall.y >= 2 * rasterizer.font_height
    /\ pcall.ret = <<1, 1>>

(***************************************************************************)
(*                     PROPERTIES OF THE MUTEXES                           *)
(***************************************************************************)
\* The order of the mutexes.
Rank(m) == CASE m = "FONT_SYSTEM" -> 1 [] m = "SWASH_CACHE" -> 2 [] m = "CHAR_CACHE" -> 3

\* Thread t waits in lock() for a mutex another guard holds.
Waiting(t) == thr[t].pc \in LockPoints /\ mutex[LockAt(thr[t].pc)] # NoThread

\* C20: threads calling render_char_cosmic, render_char_android, warm_cache
\* and load_font_data never deadlock: no set of threads waits each for a
\* mutex held inside the set.  A thread asks for a mutex only while the
\* guards it holds are of mutexes earlier in the order FONT_SYSTEM,
\* SWASH_CACHE, CHAR_CACHE, and it holds no guard of the cache when it asks
\* for FONT_SYSTEM.
C20_LockOrderNoDeadlock ==
    /\ \A S \in SUBSET Threads \ {{}} :
         ~(\A t \in S : Waiting(t) /\ mutex[LockAt(thr[t].pc)] \in S)
    /\ \A t \in Threads :
         /\ thr[t].pc \in LockPoints =>
              \A i \in DOMAIN thr[t].held : Rank(thr[t].held[i]) < Rank(LockAt(thr[t].pc))
         /\ \A i, j \in DOMAIN thr[t].held :
              i < j => Rank(thr[t].held[i]) < Rank(thr[t].held[j])
         /\ thr[t].pc = "font_lock" => "CHAR_CACHE" \notin Range(thr[t].held)
         /\ \A m \in Mutexes : mutex[m] = t <=> m \in Range(thr[t].held)

\* C20 witness: one thread holds FONT_SYSTEM and SWASH_CACHE and waits for
\* the cache to put its bitmap, while the other holds the cache for its
\* lookup.
C20_Witness ==
    \E t, u \in Threads :
        /\ t # u
        /\ thr[t].pc = "put_lock"
        /\ thr[t].held = <<"FONT_SYSTEM", "SWASH_CACHE">>
        /\ thr[u].pc = "lookup"
        /\ mutex["CHAR_CACHE"] = u

(***************************************************************************)
(*                PROPERTIES OF THE SOFT KEYBOARD TRACKING                 *)
(***************************************************************************)
\* The main loop has just passed get_visible_height after a check that
\* returned true.
Reported == sk["main"].out.op = "get_visible_height"

\* The flag is up exactly while a raise has not been reported, so the check
\* that reports a raise leaves nothing to report again.
ReportedOnce == kv.changed <=> sg.pending > 0

\* C21 as stated: whenever check_keyboard_visibility_changed returned true,
\* the notification that raised the flag had stored a height before, and the
\* get_visible_height that follows returns a height stored no earlier than
\* that; the check clears the flag, so a raise is reported once.
C21_HeightStoredBeforeFlag ==
    /\ ReportedOnce
    /\ Reported =>
         /\ sk["main"].out.fstamp > 0
         /\ sk["main"].out.hstamp >= sk["main"].out.fstamp

\* C21, amended: the same for every notification that stores a height
\* (set_keyboard_visible and detect_keyboard_visibility).  The fallback of
\* show and hide for an unknown height raises the flag without a store, and
\* the height the main loop then reads is whatever was stored last.
C21_HeightStoredBeforeFlagUnlessUnknown ==
    /\ ReportedOnce
    /\ (Reported /\ sk["main"].out.fkind = "stores") =>
         /\ sk["main"].out.fstamp > 0
         /\ sk["main"].out.hstamp >= sk["main"].out.fstamp
    /\ (Reported /\ sk["main"].out.fkind = "fallback") => sk["main"].out.fstamp = 0

\* C21 witness: the main loop reports a raise of a notification that stored
\* a height and reads a height stored after that one.
C21_Witness ==
    /\ Reported
    /\ sk["main"].out.fkind = "stores"
    /\ sk["main"].out.fstamp > 0
    /\ sk["main"].out.hstamp > sk["main"].out.fstamp

\* The last process_input_event of the main loop was for a Back key.
BackEvent ==
    /\ sk["main"].out.op = "process_input_event"
    /\ sk["main"].out.key_code = "Back"

\* C25: a Back key event never reaches map_android_event and is reported
\* handled.  With the soft keyboard flagged visible, Back-down goes into
\* hide_soft_keyboard and nothing is delivered to the app; with it not
\* visible, Back-down delivers exactly one Esc key event and Back-up
\* nothing.
C25_BackKeyConsumed ==
    BackEvent =>
        LET out == sk["main"].out
        IN  /\ ~out.mapped
            /\ out.status = "Handled"
            /\ out.visible =>
                 /\ out.delivered = <<>>
                 /\ out.hides <=> out.action = "Down"
            /\ ~out.visible =>
                 /\ ~out.hides
                 /\ out.delivered = IF out.action = "Down"
                                    THEN <<[code |-> "Esc", modifiers |-> {}]>>
                                    ELSE <<>>
            /\ sk["main"].pc # "loop" => out.hides /\ ~sk["main"].visible

\* C25 witness: a Back-down with the keyboard flagged visible has run
\* hide_soft_keyboard to its end and the keyboard is flagged hidden.
C25_Witness ==
    /\ BackEvent
    /\ sk["main"].out.visible
    /\ sk["main"].out.action = "Down"
    /\ sk["main"].pc = "loop"
    /\ ~kv.soft_visible
    /\ kv.changed

\* detect_keyboard_visibility has run to its end on a window that shrank by
\* more than the threshold while the keyboard was flagged visible by a
\* programmatic show.
ShrunkAfterShow ==
    LET t == sk["main"]
    IN  /\ t.pc = "d_done"
        /\ t.opt /\ t.st
        /\ t.h < t.prev
        /\ t.prev - t.h > detect_threshold(t.screen)

\* C26: after a programmatic show has marked the soft keyboard visible, the
\* next detect_keyboard_visibility call in which the window height has
\* shrunk by more than max(15% of the screen height, 100 px) stores the new
\* window height as the visible height and raises the changed flag.
C26_ResizeCorrectsAfterShow ==
    ShrunkAfterShow =>
        /\ sk["main"].raised
        /\ kv.visible_height = sk["main"].h

\* C22: whenever needs_draw is set while a native window is present and the
\* app does not quit, a frame is eventually drawn, for every window size:
\* the loop never stays forever in the branch that calls resize_backend.
C22_FrameEventuallyDrawn ==
    (app.needs_draw /\ app.native_window # NoWindow /\ ~app.should_quit)
        ~> ((rcall.op = "frame" /\ rcall.drew) \/ app.should_quit)

\* C23: render_to_surface_with_offset writes no pixel in the rows above
\* top_offset_px nor in the rows at or beyond window_height -
\* bottom_offset_px, whether for a cell background, a glyph bitmap or a
\* fallback block, rows that are only partly visible included.
C23_NoWriteInReservedRows ==
    (frame # NoFrame /\ frame.op = "render") =>
        \A w \in frame.writes :
            /\ w.y >= frame.top_offset_px
            /\ w.y < frame.window_height - frame.bottom_offset_px

\* C24: for every window_width > 0 the button rectangles render lays out
\* (7 in row 1, 4 in row 2, 2 pixels apart) lie within the columns
\* [0, window_width) and row 1 is centered: the margin left of its first
\* button and the margin right of its last differ by at most one pixel.
C24_ButtonsInsideWindow ==
    (kcall.op = "render" /\ kcall.panic = "none" /\ kcall.window_width > 0) =>
        LET buttons == kcall.buttons
            last    == buttons[Len(row1)]
        IN  /\ \A j \in DOMAIN buttons :
                 buttons[j].x + buttons[j].width <= kcall.window_width
            /\ \A w \in kcall.writes : w.x < kcall.window_width
            /\ buttons[1].x - (kcall.window_width - (last.x + last.width)) \in {-1, 0, 1}


(***************************************************************************)
(*                 PROPERTIES OF THE INPUT MAPPING                         *)
(***************************************************************************)
\* C27: for every Down, Up or Move touch with 0 <= x < window width and
\* 0 <= y < window_height - bottom_offset_px whose cell is at most 1000,
\* portrait and landscape alike, map_android_event returns a mouse event
\* with column floor(x / font_width) and row
\* floor(max(0, y - top_offset_px) / font_height).
C27_TouchMapsToCell ==
    (/\ pcall.op = "map_android_event"
     /\ pcall.action \in {"Down", "Up", "Move"}
     /\ pcall.font_width > 0 /\ pcall.font_height > 0
     /\ 0 <= pcall.x /\ pcall.x < pcall.window.width
     /\ 0 <= pcall.y /\ pcall.y < pcall.window.height - pcall.bottom_offset_px
     /\ pcall.x \div pcall.font_width <= 1000
     /\ Max(pcall.y - pcall.top_offset_px, 0) \div pcall.font_height <= 1000)
    => /\ pcall.ret # <<>>
       /\ pcall.ret[1].column = pcall.x \div pcall.font_width
       /\ pcall.ret[1].row = Max(pcall.y - pcall.top_offset_px, 0) \div pcall.font_height


(***************************************************************************)
(*                 PROPERTIES OF THE KEYBOARD WIDGET                       *)
(***************************************************************************)
\* The key whose 3-column slot of the row keyboard_row of the keyboard last
\* rendered holds the column col, NoKeyName where there is none.
SlotKey(state, col, keyboard_row) ==
    widget_key(state, col, keyboard_row)

\* C28: handle_touch returns a key, and marks it pressed, only when row is
\* keyboard_start_row or keyboard_start_row + 1 and the column is in that
\* key's slot relative to the start column of the last render; for every
\* other row, for columns outside the keyboard and before the first render
\* it returns None and leaves the keyboard state unchanged.
C28_WidgetTouchOnlyOnKeyboardRows ==
    kwcall.op = "handle_touch" =>
        /\ kwcall.ret # NoKeyName =>
              /\ kwcall.row \in {kwcall.keyboard_start_row, kwcall.keyboard_start_row + 1}
              /\ kwcall.ret = SlotKey(kwcall.before, kwcall.col,
                                      kwcall.row - kwcall.keyboard_start_row)
              /\ kw.pressed_key = kwcall.ret
        /\ kwcall.ret = NoKeyName => kw = kwcall.before


\* C29: the key event delivered to the app for a press of an on-screen key
\* carries the SHIFT modifier exactly while the Shift toggle is active and
\* the CONTROL modifier exactly while the Ctrl toggle is active.
C29_TogglesReachDeliveredEvent ==
    (rcall.op = "process_input_event" /\ rcall.delivered # <<>>) =>
        /\ "SHIFT" \in rcall.delivered[1].modifiers <=> kbd.shift_active
        /\ "CONTROL" \in rcall.delivered[1].modifiers <=> kbd.ctrl_active


(***************************************************************************)
(*            PROPERTIES OF THE CACHED BITMAP DIMENSIONS                   *)
(***************************************************************************)
\* C30: every bitmap render_char_cosmic(c, size, color) returns, freshly
\* shaped or served from the cache, has the width ceil(size * 0.6), doubled
\* for a wide character, and the height ceil(size): the cell dimensions of
\* Rasterizer::new(size).
C30_BitmapHasCellDimensions ==
    (cacheRet.op = "render_char_cosmic" /\ cacheRet.some) =>
        /\ cacheRet.ret.width =
              IF is_wide_char(cacheRet.c) THEN 2 * RasterizerNew(cacheRet.size).font_width
              ELSE RasterizerNew(cacheRet.size).font_width
        /\ cacheRet.ret.height = RasterizerNew(cacheRet.size).font_height

=============================================================================
